---- MODULE Spec2Model ----
(***************************************************************************)
(* Cached remote-dataset loader of compare-regions-jp:                     *)
(* compare_regions_jp/data/base.py (BaseDataLoader) with the concrete      *)
(* loaders of data/railway.py and tests/data/test_base.py.                 *)
(*                                                                         *)
(* load_data is modelled statement block by statement block (one action    *)
(* per block of base.py:112-160); the wall clock advances only while the   *)
(* loader is idle or inside one of its blocking points (fetch, file read,  *)
(* file write).                                                            *)
(***************************************************************************)
EXTENDS Integers, Sequences, FiniteSets, TLC

VARIABLES settings, loader, dir_exists, files, now, pc, call, last, cli

vars == <<settings, loader, dir_exists, files, now, pc, call, last, cli>>

----------------------------------------------------------------------------
(* Bounds of the model. *)

\* the wall clock runs from 0 to MaxTime (model seconds)
MaxTime == 3
\* model seconds per hour: the 3600 of base.py:253, scaled down
SecondsPerHour == 1
\* the remote dataset takes the versions 1..MaxVersion
MaxVersion == 2

----------------------------------------------------------------------------
(* Values. *)

None == "None"

\* the loader objects of the process
LoaderIds == DOMAIN loader

\* the one loader of the tests
OneLoader == {1}

\* a str that utf-8 cannot encode (a lone surrogate, "\udc80")
SurrogateSource == "\\udc80"

AllSources == {"source1", "source2", SurrogateSource}

\* the sources the caller of the one-key specification asks for
Sources == {"source1", SurrogateSource}

\* **kwargs of load_data: the <<name, value>> items of a dict, in the order
\* the caller supplied them
NoKwargs == << >>

KwargsUsed == {NoKwargs}

\* the parameters of test_base.py:380-382, and two parameters in both orders
ParamA == << <<"param", "a">> >>

ParamB == << <<"param", "b">> >>

ParamAExtraV == << <<"param", "a">>, <<"extra", "v">> >>

ExtraVParamA == << <<"extra", "v">>, <<"param", "a">> >>

\* the values of the parameters are strs, but for one tuple, (1, 2), and the
\* list of the same elements, [1, 2]; the two stand here as what repr
\* prints of them
BboxTuple == "(1, 2)"

BboxList == "[1, 2]"

\* a parameter whose value is a tuple, as in load_data(source, bbox=bbox)
\* (railway.py:54)
ParamBbox == << <<"bbox", BboxTuple>> >>

AllKwargs == {NoKwargs, ParamA, ParamB, ParamAExtraV, ExtraVParamA, ParamBbox}

\* a dict as a value: the set of its items (dict equality ignores order)
AsDict(kwargs) == {kwargs[i] : i \in DOMAIN kwargs}

NoData == [source |-> None, kwargs |-> {}, version |-> 0]

NoFile ==
    [exists |-> FALSE, content |-> "", data |-> NoData, mtime |-> 0,
     payload |-> NoData]

\* what the test suite writes to make an entry unparseable
InvalidJson == "invalid json"

NoError == [type |-> None, source |-> None, original_error |-> None]

NoResult ==
    [data |-> NoData, source |-> None, cached |-> FALSE, load_time_seconds |-> 0,
     cache_path |-> None, metadata |-> [cache_ttl_hours |-> 0]]

----------------------------------------------------------------------------
(* Exceptions. *)

DataLoadError(source, original_error) ==
    [type |-> "DataLoadError", source |-> source, original_error |-> original_error]

Exception(type) == [type |-> type, source |-> None, original_error |-> None]

CacheError == Exception("CacheError")

\* an outer handler that wraps a DataLoadError a second time
TopLevelExceptWrapsAll(e, source) == DataLoadError(source, e.type)

\* base.py:157-160: `except DataLoadError: raise`, then
\* `except Exception as e: raise DataLoadError(..., source, original_error=e)`
TopLevelExcept(e, source) ==
    IF e.type = "DataLoadError" THEN e ELSE DataLoadError(source, e.type)

----------------------------------------------------------------------------
(* Path derivation: BaseDataLoader._get_cache_path. *)

\* the concrete loaders of the repository (test_base.py:19, railway.py:17)
\* and one more subclass, named TestData
ClassNames == {"TestDataLoader", "RailwayDataLoader", "TestData"}

\* self.__class__.__name__.lower().replace("loader", "")
loader_name(cls) ==
    CASE cls = "TestDataLoader" -> "testdata"
      [] cls = "RailwayDataLoader" -> "railwaydata"
      [] cls = "TestData" -> "testdata"

\* str.encode(): utf-8 refuses lone surrogates
Encodable(s) == s # SurrogateSource

\* the parameter names of the model in str order
\* ("bbox" < "extra" < "param")
StrOrder == <<"bbox", "extra", "param">>

\* a < b on str
StrLess(a, b) ==
    \E i, j \in DOMAIN StrOrder : StrOrder[i] = a /\ StrOrder[j] = b /\ i < j

\* items without its i-th element
Without(items, i) ==
    [j \in 1..(Len(items) - 1) |-> IF j < i THEN items[j] ELSE items[j + 1]]

\* sorted(items) on (name, value) tuples: the names of a dict are distinct,
\* so the order of the names decides
RECURSIVE sorted(_)
sorted(items) ==
    IF items = << >> THEN << >>
    ELSE LET m == CHOOSE i \in DOMAIN items :
                      \A j \in DOMAIN items \ {i} : StrLess(items[i][1], items[j][1])
         IN <<items[m]>> \o sorted(Without(items, m))

\* repr of a str without quotes or escapes in it
ReprStr(s) == "'" \o s \o "'"

\* repr of a value of a parameter
ReprValue(v) == IF v \in {BboxTuple, BboxList} THEN v ELSE ReprStr(v)

ReprTuple(item) == "(" \o ReprStr(item[1]) \o ", " \o ReprValue(item[2]) \o ")"

RECURSIVE ReprJoin(_)
ReprJoin(items) ==
    IF items = << >> THEN ""
    ELSE IF Len(items) = 1 THEN ReprTuple(items[1])
    ELSE ReprTuple(items[1]) \o ", " \o ReprJoin(Tail(items))

\* repr of a list of tuples
ReprList(items) == "[" \o ReprJoin(items) \o "]"

\* the items in the order the caller supplied them, unsorted
ReprItemsAsSupplied(kwargs) == ReprList(kwargs)

\* repr(sorted(kwargs.items()))
ReprSortedItems(kwargs) == ReprList(sorted(kwargs))

\* a key made of the source alone
cache_key_source_only(source, kwargs) == source \o "_[]"

\* f"{source}_{sorted(kwargs.items())}"
cache_key(source, kwargs) == source \o "_" \o ReprSortedItems(kwargs)

\* hashlib.sha256(cache_key.encode()).hexdigest()[:16]
sha256_hex16(key) ==
    CASE key = "source1_[]" -> "e9a351145159392a"
      [] key = "source1_[('param', 'a')]" -> "8b18a47f0d8fbc0f"
      [] key = "source1_[('param', 'b')]" -> "6f72bcc02de49598"
      [] key = "source1_[('extra', 'v'), ('param', 'a')]" -> "2d769ce3c978e9c9"
      [] key = "source1_[('param', 'a'), ('extra', 'v')]" -> "96ec9e96b8c4701b"
      [] key = "source1_[('bbox', (1, 2))]" -> "98646cedaafd2891"
      [] key = "source2_[]" -> "76a62c196ffb10c6"
      [] key = "source2_[('param', 'a')]" -> "ba9c698a3a2772cd"
      [] key = "source2_[('param', 'b')]" -> "5f88ac881a380e08"
      [] key = "source2_[('extra', 'v'), ('param', 'a')]" -> "cec89b3cc1661c55"
      [] key = "source2_[('param', 'a'), ('extra', 'v')]" -> "a5207016aa5ffde4"
      [] key = "source2_[('bbox', (1, 2))]" -> "a5e553b446996f85"

CacheDir == "cache_dir"

\* a directory given to the constructor (test_base.py:128)
CustomDir == "custom"

_get_cache_path(cls, cache_dir, source, kwargs) ==
    cache_dir \o "/" \o loader_name(cls) \o "_"
        \o sha256_hex16(cache_key(source, kwargs)) \o ".cache"

\* the sources a path can be derived for
EncodableSources == {s \in AllSources : Encodable(s)}

\* the file names of the cache directory
AllPaths ==
    {_get_cache_path(c, d, s, k) :
        c \in ClassNames, d \in {CacheDir, CustomDir},
        s \in EncodableSources, k \in AllKwargs}

\* the paths the loads of the requests R (<<source, kwargs>>) can derive
PathsFor(R) ==
    {_get_cache_path(loader[l].cls, loader[l].cache_dir, r[1], r[2]) :
        l \in LoaderIds, r \in {x \in R : Encodable(x[1])}}

\* the paths the parameterless loads of the sources S can derive
PathsOf(S) == PathsFor(S \X KwargsUsed)

----------------------------------------------------------------------------
(* Freshness: BaseDataLoader._is_cache_valid. *)

\* a lookup that lets an entry of exactly the TTL's age expire
_is_cache_valid_strict(f, t, cache_ttl_hours) ==
    /\ f.exists
    /\ (t - f.mtime) < cache_ttl_hours * SecondsPerHour

\* a lookup that never looks at the entry's age
_is_cache_valid_no_ttl(f, t, cache_ttl_hours) == f.exists

\* (time.time() - st_mtime) / 3600 <= self.cache_ttl_hours, in exact arithmetic
_is_cache_valid(f, t, cache_ttl_hours) ==
    /\ f.exists
    /\ (t - f.mtime) <= cache_ttl_hours * SecondsPerHour

----------------------------------------------------------------------------
(* The concrete loader's serializer pair (_save_to_cache, _load_from_cache). *)

\* JSON has arrays only: the encoder writes a tuple as it writes a list
JsonValue(v) == IF v = BboxTuple THEN BboxList ELSE v

\* json.dump(data, f): the document written for a payload
json_dump(data) ==
    [data EXCEPT !.kwargs = {<<item[1], JsonValue(item[2])>> : item \in @}]

\* json.load(f): objects as dicts, arrays as lists, strings as strs
json_load(document) == document

\* test_base.py:34-39; `data` is the document in the file, `payload` what
\* the serializer was given (bookkeeping, nothing on disk)
_save_to_cache(data, t) ==
    [exists |-> TRUE, content |-> "json", data |-> json_dump(data), mtime |-> t,
     payload |-> data]

\* an interrupted write leaves a truncated file behind
PartialWrite(t) ==
    [exists |-> TRUE, content |-> InvalidJson, data |-> NoData, mtime |-> t,
     payload |-> NoData]

Parseable(f) == f.exists /\ f.content = "json"

\* test_base.py:41-45
_load_from_cache(f) == json_load(f.data)

----------------------------------------------------------------------------
(* Construction: BaseDataLoader.__init__.  An optional argument is the     *)
(* empty set (None) or a singleton.                                        *)

Falsy(opt) == opt = {} \/ opt = {0}

\* Python's `opt or default`
Or(opt, default) == IF Falsy(opt) THEN default ELSE CHOOSE v \in opt : TRUE

\* `opt or default` for a Path: every Path is truthy, Path("") included
PathOr(opt, default) == IF opt = {} THEN default ELSE CHOOSE v \in opt : TRUE

\* a constructor whose cache_enabled argument alone decides
BaseDataLoader_init_argument_decides(cls, cache_enabled, cache_ttl_hours, cache_dir, s) ==
    [cls |-> cls,
     cache_enabled |-> cache_enabled,
     cache_ttl_hours |-> Or(cache_ttl_hours, s.cache_ttl_hours),
     cache_dir |-> PathOr(cache_dir, s.cache_dir),
     args |-> [cache_enabled |-> cache_enabled,
               cache_ttl_hours |-> cache_ttl_hours, cache_dir |-> cache_dir],
     seen |-> s]

\* base.py:84-87; args keeps what the constructor was called with and seen
\* the settings get_settings() returned to it
BaseDataLoader_init(cls, cache_enabled, cache_ttl_hours, cache_dir, s) ==
    [cls |-> cls,
     cache_enabled |-> cache_enabled /\ s.cache_enabled,
     cache_ttl_hours |-> Or(cache_ttl_hours, s.cache_ttl_hours),
     cache_dir |-> PathOr(cache_dir, s.cache_dir),
     args |-> [cache_enabled |-> cache_enabled,
               cache_ttl_hours |-> cache_ttl_hours, cache_dir |-> cache_dir],
     seen |-> s]

\* the process-wide settings the model starts from (config/settings.py)
SettingsValues ==
    [cache_enabled : BOOLEAN, cache_ttl_hours : {1}, cache_dir : {CacheDir},
     debug : BOOLEAN]

\* the constructor arguments the model draws
CtorTtlArgs == {{}, {2}}

----------------------------------------------------------------------------
(* The locals of one load_data call, with the bookkeeping the properties   *)
(* read (what the call did, and what it found and left on disk).           *)

NoSnapshot == [exists |-> FALSE, content |-> "", data |-> NoData, age |-> 0]

Snapshot(f, t) ==
    [exists |-> f.exists, content |-> f.content, data |-> f.data,
     age |-> IF f.exists THEN t - f.mtime ELSE 0]

\* the dict get_cache_info returns (none returned)
NoInfo ==
    [enabled |-> FALSE, cache_dir |-> None, ttl_hours |-> 0, file_count |-> 0,
     total_size_bytes |-> 0, files |-> {}]

IdleCall ==
    [op |-> None, loader |-> 0, source |-> None, kwargs |-> NoKwargs,
     start_time |-> 0, cache_path |-> None, data |-> NoData, load_time |-> 0,
     cache_path_save |-> None,
     dir_empty |-> FALSE, looked |-> FALSE, pre |-> NoSnapshot,
     fetches |-> 0, fetched |-> NoData, fetch_failed |-> FALSE, at_fetch |-> FALSE,
     desers |-> 0, deser_failed |-> FALSE, read |-> NoData,
     sers |-> 0, saved |-> FALSE, ser_failed |-> FALSE, wrote |-> FALSE,
     unlinks |-> 0, unlink_failed |-> FALSE, unlink_fails |-> 0, unlinked |-> "",
     printed |-> 0, raised |-> NoError,
     outcome |-> None, result |-> NoResult, error |-> NoError,
     post |-> NoSnapshot, elapsed |-> 0, fetch_secs |-> 0, save_secs |-> 0,
     count |-> 0, deleted |-> {}, readable |-> {}, info |-> NoInfo]

\* what is kept of an operation once the next one has begun
NoSummary ==
    [op |-> None, loader |-> 0, source |-> None, kwargs |-> NoKwargs,
     outcome |-> None, cached |-> FALSE, saved |-> FALSE, dir_empty |-> FALSE,
     fetches |-> 0, desers |-> 0, sers |-> 0, unlinked |-> "",
     at_fetch |-> FALSE, wrote |-> FALSE, unlink_fails |-> 0,
     count |-> 0, deleted |-> {}, readable |-> {}, env |-> {}]

Summary(c) ==
    [op |-> c.op, loader |-> c.loader, source |-> c.source, kwargs |-> c.kwargs,
     outcome |-> c.outcome, cached |-> c.result.cached, saved |-> c.saved,
     dir_empty |-> c.dir_empty,
     fetches |-> c.fetches, desers |-> c.desers, sers |-> c.sers,
     unlinked |-> c.unlinked,
     at_fetch |-> c.at_fetch, wrote |-> c.wrote, unlink_fails |-> c.unlink_fails,
     count |-> c.count, deleted |-> c.deleted, readable |-> c.readable,
     env |-> {}]

PathOf(l, c) ==
    IF Encodable(c.source)
    THEN _get_cache_path(loader[l].cls, loader[l].cache_dir, c.source, c.kwargs)
    ELSE None

FileAt(fs, p) == IF p \in DOMAIN fs THEN fs[p] ELSE NoFile

\* a finished call as the caller sees it: absolute times are dropped
Finished(l, c, fs) ==
    [c EXCEPT !.start_time = 0,
              !.elapsed = now - c.start_time,
              !.post = Snapshot(FileAt(fs, PathOf(l, c)), now)]

\* return DataLoadResult(...) of the cache-hit branch (base.py:122-129)
CachedResult(l, c, data, load_time) ==
    [data |-> data, source |-> c.source, cached |-> TRUE,
     load_time_seconds |-> load_time, cache_path |-> c.cache_path,
     metadata |-> [cache_ttl_hours |-> loader[l].cache_ttl_hours]]

\* a fresh result that reports itself as cached
FreshResultMarkedCached(l, c) ==
    [data |-> c.data, source |-> c.source, cached |-> TRUE,
     load_time_seconds |-> c.load_time, cache_path |-> c.cache_path_save,
     metadata |-> [cache_ttl_hours |-> loader[l].cache_ttl_hours]]

\* a fresh result whose data is read back from the entry just saved
FreshResultReadBack(l, c) ==
    [data |-> IF c.saved THEN FileAt(files, c.cache_path_save).data ELSE c.data,
     source |-> c.source, cached |-> FALSE,
     load_time_seconds |-> c.load_time, cache_path |-> c.cache_path_save,
     metadata |-> [cache_ttl_hours |-> loader[l].cache_ttl_hours]]

\* a fresh result that names no path when the save has failed
FreshResultNoPathOnFailure(l, c) ==
    [data |-> c.data, source |-> c.source, cached |-> FALSE,
     load_time_seconds |-> c.load_time,
     cache_path |-> IF c.ser_failed THEN None ELSE c.cache_path_save,
     metadata |-> [cache_ttl_hours |-> loader[l].cache_ttl_hours]]

\* a fresh result whose load time is taken when the call returns
FreshResultTimedAtReturn(l, c) ==
    [data |-> c.data, source |-> c.source, cached |-> FALSE,
     load_time_seconds |-> now - c.start_time, cache_path |-> c.cache_path_save,
     metadata |-> [cache_ttl_hours |-> loader[l].cache_ttl_hours]]

\* return DataLoadResult(...) of the fresh branch (base.py:148-155)
FreshResult(l, c) ==
    [data |-> c.data, source |-> c.source, cached |-> FALSE,
     load_time_seconds |-> c.load_time, cache_path |-> c.cache_path_save,
     metadata |-> [cache_ttl_hours |-> loader[l].cache_ttl_hours]]

Returns(l, c, result, fs) ==
    /\ call' = [call EXCEPT ![l] =
                  Finished(l, [c EXCEPT !.outcome = "result", !.result = result], fs)]
    /\ pc' = [pc EXCEPT ![l] = "done"]

\* an exception e leaves the outer try of load_data (base.py:157-160)
Raises(l, c, e, fs) ==
    /\ call' = [call EXCEPT ![l] =
                  Finished(l, [c EXCEPT !.outcome = "error", !.raised = e,
                                        !.error = TopLevelExcept(e, c.source)], fs)]
    /\ pc' = [pc EXCEPT ![l] = "done"]

----------------------------------------------------------------------------
(* The command line's aggregation: count_stations_in_area (cli.py:50-76).  *)
(* A value of a row is given with its Python type; a key the row does not  *)
(* have is Absent.                                                         *)

IntValue(n) == [type |-> "int", num |-> n, nan |-> FALSE]

\* float("nan"), what a column holds where a feature has no value
NaN == [type |-> "float", num |-> 0, nan |-> TRUE]

Str == [type |-> "str", num |-> 0, nan |-> FALSE]

NoneValue == [type |-> "NoneType", num |-> 0, nan |-> FALSE]

Absent == [type |-> "absent", num |-> 0, nan |-> FALSE]

CountKeys == {"a1", "d1", "a2", "d2"}

\* station.get(key, 0)
Get(station, key) == IF station[key] = Absent THEN IntValue(0) ELSE station[key]

\* isinstance(v, int | float)
IsNumber(v) == v.type \in {"int", "float"}

\* int(v) raises ValueError for a NaN
IntRaises(v) == v.nan

\* int(v) if isinstance(v, int | float) else 0 (cli.py:67-70)
Count(v) == IF IsNumber(v) THEN v.num ELSE 0

\* box(minx, miny, maxx, maxy) and geometry.within: the interior of the box
within(point, bbox) ==
    /\ bbox[1] < point[1] /\ point[1] < bbox[3]
    /\ bbox[2] < point[2] /\ point[2] < bbox[4]

NoCount == [outcome |-> None, arrivals |-> 0, departures |-> 0, total |-> 0]

NoCli == [gdf |-> << >>, bbox |-> <<0, 0, 0, 0>>, pc |-> "idle", result |-> NoCount]

\* the loop of cli.py:60-73 over the rows from the i-th on, with the totals
\* so far
RECURSIVE Iterrows(_, _, _, _)
Iterrows(rows, i, total_arrivals, total_departures) ==
    IF i > Len(rows)
    THEN [outcome |-> "result", arrivals |-> total_arrivals,
          departures |-> total_departures,
          total |-> total_arrivals + total_departures]
    ELSE LET arrivals1 == Get(rows[i], "a1")
             departures1 == Get(rows[i], "d1")
             arrivals2 == Get(rows[i], "a2")
             departures2 == Get(rows[i], "d2")
         IN IF \E v \in {arrivals1, departures1, arrivals2, departures2} :
                  IsNumber(v) /\ IntRaises(v)
            THEN [NoCount EXCEPT !.outcome = "ValueError"]
            ELSE Iterrows(rows, i + 1,
                          total_arrivals + Count(arrivals1) + Count(arrivals2),
                          total_departures + Count(departures1) + Count(departures2))

\* gdf[gdf.geometry.within(area_box)]
SelectWithin(gdf, bbox) == SelectSeq(gdf, LAMBDA s : within(s.geometry, bbox))

\* count_stations_in_area(gdf, bbox)
count_stations_in_area ==
    /\ cli.pc = "idle"
    /\ cli.gdf # << >>
    /\ cli' = [cli EXCEPT !.pc = "done",
                          !.result = Iterrows(SelectWithin(cli.gdf, cli.bbox), 1, 0, 0)]
    /\ UNCHANGED <<settings, loader, dir_exists, files, now, pc, call, last>>

----------------------------------------------------------------------------
(* The initial state: settings loaded, one loader constructed over an      *)
(* empty cache directory (the tests' fresh temporary directory, which      *)
(* exists; base.py:89-90 creates it for a caching loader anyway).          *)

Init ==
    /\ settings \in SettingsValues
    /\ \E en \in BOOLEAN, ttl \in CtorTtlArgs :
          loader = [l \in OneLoader |->
                       BaseDataLoader_init("TestDataLoader", en, ttl, {}, settings)]
    /\ dir_exists = TRUE
    /\ files = [p \in AllPaths |-> NoFile]
    /\ now = 0
    /\ pc = [l \in LoaderIds |-> "idle"]
    /\ call = [l \in LoaderIds |-> IdleCall]
    /\ last = NoSummary
    /\ cli = NoCli

AllIdle == \A l \in LoaderIds : pc[l] = "idle"

----------------------------------------------------------------------------
(* load_data, block by block. *)

\* base.py:116: the lookup is skipped when caching is off
FirstBlock(cache_enabled) == IF cache_enabled THEN "lookup" ELSE "fetch"

\* base.py:118-135: a valid entry is read, anything else goes to the source
AfterLookup(valid) == IF valid THEN "load_from_cache" ELSE "fetch"

\* a fetch whose result is always written, whatever cache_enabled says
AfterFetchAlwaysSave(cache_enabled) == "save"

\* base.py:140: the save is attempted only when caching is on
AfterFetch(cache_enabled) == IF cache_enabled THEN "save" ELSE "return"

\* base.py:112-116: start_time = time.time(), enter the try; the call of
\* one process, whatever the other processes are doing
load_data_in_process(l, source, kwargs) ==
    /\ pc[l] = "idle"
    /\ call' = [call EXCEPT ![l] =
                  [IdleCall EXCEPT !.op = "load", !.loader = l,
                                   !.source = source, !.kwargs = kwargs,
                                   !.start_time = now,
                                   !.dir_empty = \A p \in DOMAIN files : ~files[p].exists]]
    /\ pc' = [pc EXCEPT ![l] = FirstBlock(loader[l].cache_enabled)]
    /\ UNCHANGED <<cli, settings, loader, dir_exists, files, now, last>>

\* load_data called by a single-threaded caller: no other call is running
load_data(l, source, kwargs) ==
    /\ AllIdle
    /\ load_data_in_process(l, source, kwargs)

\* a lookup that unlinks the entry it finds expired
LookupPurgingStale(l) ==
    /\ pc[l] = "lookup"
    /\ LET c == call[l] IN
       IF ~Encodable(c.source)
       THEN /\ Raises(l, c, Exception("UnicodeEncodeError"), files)
            /\ UNCHANGED <<cli, settings, loader, dir_exists, files, now, last>>
       ELSE LET p == _get_cache_path(loader[l].cls, loader[l].cache_dir,
                                     c.source, c.kwargs)
                f == FileAt(files, p)
                valid == _is_cache_valid(f, now, loader[l].cache_ttl_hours)
            IN /\ call' = [call EXCEPT ![l] =
                             [c EXCEPT !.cache_path = p, !.looked = TRUE,
                                       !.pre = Snapshot(f, now)]]
               /\ pc' = [pc EXCEPT ![l] = AfterLookup(valid)]
               /\ files' = IF f.exists /\ ~valid
                           THEN [files EXCEPT ![p] = NoFile] ELSE files
               /\ UNCHANGED <<cli, settings, loader, dir_exists, now, last>>

\* base.py:117-118: derive the path, test the entry's freshness
Lookup(l) ==
    /\ pc[l] = "lookup"
    /\ LET c == call[l] IN
       IF ~Encodable(c.source)
       THEN /\ Raises(l, c, Exception("UnicodeEncodeError"), files)
            /\ UNCHANGED <<cli, settings, loader, dir_exists, files, now, last>>
       ELSE LET p == _get_cache_path(loader[l].cls, loader[l].cache_dir,
                                     c.source, c.kwargs)
                f == FileAt(files, p)
            IN /\ call' = [call EXCEPT ![l] =
                             [c EXCEPT !.cache_path = p, !.looked = TRUE,
                                       !.pre = Snapshot(f, now)]]
               /\ pc' = [pc EXCEPT ![l] =
                           AfterLookup(_is_cache_valid(f, now, loader[l].cache_ttl_hours))]
               /\ UNCHANGED <<cli, settings, loader, dir_exists, files, now, last>>

\* a read that refreshes the entry's modification time on a hit
LoadFromCacheTouching(l) ==
    /\ pc[l] = "load_from_cache"
    /\ LET c == call[l]
           f == FileAt(files, c.cache_path)
           touched == [files EXCEPT ![c.cache_path].mtime = now]
       IN IF Parseable(f)
          THEN LET data == _load_from_cache(f)
                   d == [c EXCEPT !.desers = @ + 1, !.read = data, !.data = data,
                                  !.load_time = now - c.start_time]
               IN /\ Returns(l, d, CachedResult(l, d, data, now - c.start_time),
                             touched)
                  /\ files' = touched
          ELSE /\ call' = [call EXCEPT ![l] =
                             [c EXCEPT !.desers = @ + 1, !.deser_failed = TRUE]]
               /\ pc' = [pc EXCEPT ![l] = "read_error"]
               /\ files' = files
    /\ UNCHANGED <<cli, settings, loader, dir_exists, now, last>>

\* base.py:119-130: read the entry; return it, or fall into the except
LoadFromCache(l) ==
    /\ pc[l] = "load_from_cache"
    /\ LET c == call[l]
           f == FileAt(files, c.cache_path)
       IN IF Parseable(f)
          THEN LET data == _load_from_cache(f)
                   d == [c EXCEPT !.desers = @ + 1, !.read = data, !.data = data,
                                  !.load_time = now - c.start_time]
               IN Returns(l, d, CachedResult(l, d, data, now - c.start_time), files)
          ELSE /\ call' = [call EXCEPT ![l] =
                             [c EXCEPT !.desers = @ + 1, !.deser_failed = TRUE]]
               /\ pc' = [pc EXCEPT ![l] = "read_error"]
    /\ UNCHANGED <<cli, settings, loader, dir_exists, files, now, last>>

\* an error handler that warns and leaves the file where it is
_handle_cache_error_no_unlink(l, cache_path, next) ==
    /\ pc' = [pc EXCEPT ![l] = next]
    /\ call' = [call EXCEPT ![l] =
                  [call[l] EXCEPT !.printed = @ + (IF settings.debug THEN 1 ELSE 0)]]
    /\ UNCHANGED <<cli, settings, loader, dir_exists, files, now, last>>

\* an error handler that empties the cache directory
_handle_cache_error_purging(l, cache_path, next) ==
    /\ pc' = [pc EXCEPT ![l] = next]
    /\ files' = [p \in DOMAIN files |-> NoFile]
    /\ call' = [call EXCEPT ![l] =
                  [call[l] EXCEPT !.printed = @ + (IF settings.debug THEN 1 ELSE 0),
                                  !.unlinks = @ + 1]]
    /\ UNCHANGED <<cli, settings, loader, dir_exists, now, last>>

\* an error handler that warns as the settings said at construction
_handle_cache_error_debug_at_init(l, cache_path, next) ==
    LET c == call[l]
        there == cache_path # None /\ FileAt(files, cache_path).exists
        warned == [c EXCEPT !.printed = @ + (IF loader[l].seen.debug THEN 1 ELSE 0)]
    IN /\ pc' = [pc EXCEPT ![l] = next]
       /\ IF there
          THEN \E ok \in BOOLEAN :
                 /\ files' = IF ok THEN [files EXCEPT ![cache_path] = NoFile] ELSE files
                 /\ call' = [call EXCEPT ![l] =
                               [warned EXCEPT !.unlinks = @ + 1,
                                              !.unlink_failed = @ \/ ~ok]]
          ELSE /\ files' = files
               /\ call' = [call EXCEPT ![l] = warned]
       /\ UNCHANGED <<cli, settings, loader, dir_exists, now, last>>

\* an error handler that prints the warning whatever debug says
_handle_cache_error_always_warns(l, cache_path, next) ==
    LET c == call[l]
        there == cache_path # None /\ FileAt(files, cache_path).exists
        warned == [c EXCEPT !.printed = @ + 1]
    IN /\ pc' = [pc EXCEPT ![l] = next]
       /\ IF there
          THEN \E ok \in BOOLEAN :
                 /\ files' = IF ok THEN [files EXCEPT ![cache_path] = NoFile] ELSE files
                 /\ call' = [call EXCEPT ![l] =
                               [warned EXCEPT !.unlinks = @ + 1,
                                              !.unlink_failed = @ \/ ~ok,
                                              !.unlink_fails = @ + (IF ok THEN 0 ELSE 1),
                                              !.unlinked =
                                                 IF ok THEN files[cache_path].content
                                                 ELSE @]]
          ELSE /\ files' = files
               /\ call' = [call EXCEPT ![l] = warned]
       /\ UNCHANGED <<cli, settings, loader, dir_exists, now, last>>

\* an error handler whose failed unlink leaves load_data as an exception
_handle_cache_error_unlink_raises(l, cache_path, next) ==
    LET c == call[l]
        there == cache_path # None /\ FileAt(files, cache_path).exists
        warned == [c EXCEPT !.printed = @ + (IF settings.debug THEN 1 ELSE 0)]
    IN /\ IF there
          THEN \/ /\ files' = [files EXCEPT ![cache_path] = NoFile]
                  /\ pc' = [pc EXCEPT ![l] = next]
                  /\ call' = [call EXCEPT ![l] =
                                [warned EXCEPT !.unlinks = @ + 1,
                                               !.unlinked = files[cache_path].content]]
               \/ /\ files' = files
                  /\ Raises(l, [warned EXCEPT !.unlinks = @ + 1,
                                              !.unlink_failed = TRUE],
                            Exception("OSError"), files)
          ELSE /\ files' = files
               /\ pc' = [pc EXCEPT ![l] = next]
               /\ call' = [call EXCEPT ![l] = warned]
       /\ UNCHANGED <<cli, settings, loader, dir_exists, now, last>>

\* _handle_cache_error (base.py:256-277): an optional warning, then a
\* best-effort unlink of the file at cache_path
_handle_cache_error(l, cache_path, next) ==
    LET c == call[l]
        there == cache_path # None /\ FileAt(files, cache_path).exists
        warned == [c EXCEPT !.printed = @ + (IF settings.debug THEN 1 ELSE 0)]
    IN /\ pc' = [pc EXCEPT ![l] = next]
       /\ IF there
          THEN \E ok \in BOOLEAN :
                 /\ files' = IF ok THEN [files EXCEPT ![cache_path] = NoFile] ELSE files
                 /\ call' = [call EXCEPT ![l] =
                               [warned EXCEPT !.unlinks = @ + 1,
                                              !.unlink_failed = @ \/ ~ok,
                                              !.unlink_fails = @ + (IF ok THEN 0 ELSE 1),
                                              !.unlinked =
                                                 IF ok THEN files[cache_path].content
                                                 ELSE @]]
          ELSE /\ files' = files
               /\ call' = [call EXCEPT ![l] = warned]
       /\ UNCHANGED <<cli, settings, loader, dir_exists, now, last>>

\* a handler that goes back to the lookup once the entry is deleted
HandleReadErrorRelookup(l) ==
    /\ pc[l] = "read_error"
    /\ _handle_cache_error(l, call[l].cache_path, "lookup")

\* base.py:130-132
HandleReadError(l) ==
    /\ pc[l] = "read_error"
    /\ _handle_cache_error(l, call[l].cache_path, "fetch")

\* what _load_data_from_source raises: a DataLoadError naming the source
\* (railway.py:105-108 with the cause, test_base.py:30-31 without), or an
\* unclassified exception (test_base.py:243)
FetchFailures(source) ==
    {DataLoadError(source, None), DataLoadError(source, "URLError"),
     Exception("ValueError")}

\* the version of the remote dataset a fetch of `source` returns
Fetched(source, kwargs, v) ==
    [source |-> source, kwargs |-> AsDict(kwargs), version |-> v]

\* a fetch that is tried a second time when it fails
FetchRetrying(l) ==
    /\ pc[l] = "fetch"
    /\ LET c == call[l] IN
       \/ \E v \in 1..MaxVersion :
            LET data == Fetched(c.source, c.kwargs, v) IN
            /\ call' = [call EXCEPT ![l] =
                          [c EXCEPT !.fetches = @ + 1, !.fetched = data, !.data = data,
                                    !.load_time = now - c.start_time]]
            /\ pc' = [pc EXCEPT ![l] = AfterFetch(loader[l].cache_enabled)]
       \/ /\ c.fetches < 2
          /\ call' = [call EXCEPT ![l] =
                        [c EXCEPT !.fetches = @ + 1, !.fetch_failed = TRUE]]
          /\ pc' = pc
       \/ \E e \in FetchFailures(c.source) :
            /\ c.fetches >= 2
            /\ Raises(l, [c EXCEPT !.fetches = @ + 1, !.fetch_failed = TRUE], e, files)
    /\ UNCHANGED <<cli, settings, loader, dir_exists, files, now, last>>

\* base.py:135-136: data = self._load_data_from_source(...); load_time
Fetch(l) ==
    /\ pc[l] = "fetch"
    /\ LET c == [call[l] EXCEPT
                   !.at_fetch = FileAt(files, call[l].cache_path).exists] IN
       \/ \E v \in 1..MaxVersion :
            LET data == Fetched(c.source, c.kwargs, v) IN
            /\ call' = [call EXCEPT ![l] =
                          [c EXCEPT !.fetches = @ + 1, !.fetched = data, !.data = data,
                                    !.load_time = now - c.start_time]]
            /\ pc' = [pc EXCEPT ![l] = AfterFetch(loader[l].cache_enabled)]
       \/ \E e \in FetchFailures(c.source) :
            Raises(l, [c EXCEPT !.fetches = @ + 1, !.fetch_failed = TRUE], e, files)
    /\ UNCHANGED <<cli, settings, loader, dir_exists, files, now, last>>

\* a save whose failure leaves the try block as an exception
SaveFailurePropagates(l, c, fs) ==
    /\ Raises(l, c, CacheError, fs)
    /\ files' = fs
    /\ UNCHANGED <<cli, settings, loader, dir_exists, now, last>>

\* base.py:144-146: `except Exception` around the save; the handler runs next
SaveFailure(l, c, fs) ==
    /\ call' = [call EXCEPT ![l] = c]
    /\ pc' = [pc EXCEPT ![l] = "save_error"]
    /\ files' = fs
    /\ UNCHANGED <<cli, settings, loader, dir_exists, now, last>>

\* base.py:139-143: derive the path again and write the entry.  The write
\* succeeds, fails before touching the file, or fails after truncating it;
\* without the directory open() fails and nothing is written.
Save(l) ==
    /\ pc[l] = "save"
    /\ LET c == call[l] IN
       IF ~Encodable(c.source)
       THEN SaveFailure(l, [c EXCEPT !.ser_failed = TRUE], files)
       ELSE LET p == _get_cache_path(loader[l].cls, loader[l].cache_dir,
                                     c.source, c.kwargs)
                d == [c EXCEPT !.cache_path_save = p, !.sers = @ + 1]
            IN \/ /\ dir_exists
                  /\ files' = [files EXCEPT ![p] = _save_to_cache(c.data, now)]
                  /\ call' = [call EXCEPT ![l] =
                                [d EXCEPT !.saved = TRUE, !.wrote = TRUE]]
                  /\ pc' = [pc EXCEPT ![l] = "return"]
                  /\ UNCHANGED <<cli, settings, loader, dir_exists, now, last>>
               \/ SaveFailure(l, [d EXCEPT !.ser_failed = TRUE], files)
               \/ /\ dir_exists
                  /\ SaveFailure(l, [d EXCEPT !.ser_failed = TRUE, !.wrote = TRUE],
                                 [files EXCEPT ![p] = PartialWrite(now)])

\* a handling of the failed save that leaves the file where it is
HandleSaveErrorKeeping(l) ==
    /\ pc[l] = "save_error"
    /\ _handle_cache_error_no_unlink(l, call[l].cache_path_save, "return")

\* base.py:144-146
HandleSaveError(l) ==
    /\ pc[l] = "save_error"
    /\ _handle_cache_error(l, call[l].cache_path_save, "return")

\* base.py:148-155
Return(l) ==
    /\ pc[l] = "return"
    /\ Returns(l, call[l], FreshResult(l, call[l]), files)
    /\ UNCHANGED <<cli, settings, loader, dir_exists, files, now, last>>

\* the caller takes the result (or the error); the loader is idle again
Finish(l) ==
    /\ pc[l] = "done"
    /\ last' = Summary(call[l])
    /\ call' = [call EXCEPT ![l] = IdleCall]
    /\ pc' = [pc EXCEPT ![l] = "idle"]
    /\ UNCHANGED <<cli, settings, loader, dir_exists, files, now>>

----------------------------------------------------------------------------
(* clear_cache and get_cache_info.  Each is one call of a single-threaded  *)
(* caller and runs as one step; the caller then holds its return value     *)
(* (pc = "done").                                                          *)

\* the 16-digit names the model's keys hash to
Hashes ==
    {sha256_hex16(cache_key(s, k)) : s \in EncodableSources, k \in AllKwargs}

\* self.cache_dir.glob(f"{loader_prefix}_*.cache"): the files present whose
\* name is the prefix, "_", anything, ".cache" (no loader name of the model
\* goes on after another one and "_", so anything is a digest)
glob(fs, cache_dir, loader_prefix) ==
    {p \in DOMAIN fs :
        /\ fs[p].exists
        /\ \E h \in Hashes : p = cache_dir \o "/" \o loader_prefix \o "_" \o h \o ".cache"}

\* the entries that could be read back when the call began
ParseableIn(fs) == {p \in DOMAIN fs : Parseable(fs[p])}

\* clear_cache returns deleted_count, having removed the files `gone`
ClearReturns(l, c, gone, failed) ==
    /\ files' = [p \in DOMAIN files |-> IF p \in gone THEN NoFile ELSE files[p]]
    /\ call' = [call EXCEPT ![l] =
                  [c EXCEPT !.outcome = "result", !.count = Cardinality(gone),
                            !.deleted = gone, !.unlinks = Cardinality(gone \cup failed),
                            !.unlink_failed = failed # {}]]
    /\ pc' = [pc EXCEPT ![l] = "done"]

\* a clear that counts the unlinks it tried, not the ones that succeeded
ClearAllCountingAttempts(l, c) ==
    LET found == glob(files, loader[l].cache_dir, loader_name(loader[l].cls))
    IN \E failed \in SUBSET found :
          /\ files' = [p \in DOMAIN files |->
                          IF p \in found \ failed THEN NoFile ELSE files[p]]
          /\ call' = [call EXCEPT ![l] =
                        [c EXCEPT !.outcome = "result", !.count = Cardinality(found),
                                  !.deleted = found \ failed,
                                  !.unlinks = Cardinality(found),
                                  !.unlink_failed = failed # {}]]
          /\ pc' = [pc EXCEPT ![l] = "done"]

\* a clear that gives up at the first unlink that raises: the files it had
\* not reached yet are left alone
ClearAllStoppingAtFailure(l, c) ==
    LET found == glob(files, loader[l].cache_dir, loader_name(loader[l].cls))
    IN \E failed \in SUBSET found, skipped \in SUBSET found :
          /\ failed \cap skipped = {}
          /\ Cardinality(failed) <= 1
          /\ failed = {} => skipped = {}
          /\ ClearReturns(l, c, found \ (failed \cup skipped), failed)

\* base.py:296-304: every file the glob finds is unlinked; an unlink that
\* raises is passed over and not counted
ClearAll(l, c) ==
    LET found == glob(files, loader[l].cache_dir, loader_name(loader[l].cls))
    IN \E failed \in SUBSET found : ClearReturns(l, c, found \ failed, failed)

\* an exception leaves clear_cache, which has no handler around the
\* derivation of the path (base.py:307)
ClearRaises(l, c, e) ==
    /\ call' = [call EXCEPT ![l] = [c EXCEPT !.outcome = "error", !.raised = e,
                                              !.error = e]]
    /\ pc' = [pc EXCEPT ![l] = "done"]
    /\ files' = files

\* a clear of one source that unlinks every file of the loader's prefix
ClearOneWholePrefix(l, c) ==
    IF ~Encodable(c.source)
    THEN ClearRaises(l, c, Exception("UnicodeEncodeError"))
    ELSE LET found == glob(files, loader[l].cache_dir, loader_name(loader[l].cls))
         IN ClearReturns(l, c, found, {})

\* base.py:305-313: the one derived path is unlinked if it exists
ClearOne(l, c) ==
    IF ~Encodable(c.source)
    THEN ClearRaises(l, c, Exception("UnicodeEncodeError"))
    ELSE LET p == _get_cache_path(loader[l].cls, loader[l].cache_dir,
                                  c.source, c.kwargs)
             found == IF FileAt(files, p).exists THEN {p} ELSE {}
         IN \E failed \in SUBSET found : ClearReturns(l, c, found \ failed, failed)

\* a clear that does not look at cache_enabled
clear_cache_unguarded(l, source, kwargs) ==
    /\ AllIdle
    /\ LET c == [IdleCall EXCEPT !.op = "clear", !.loader = l,
                                 !.source = source, !.kwargs = kwargs,
                                 !.readable = ParseableIn(files)]
       IN IF ~dir_exists
          THEN ClearReturns(l, c, {}, {})
          ELSE IF source = None THEN ClearAll(l, c) ELSE ClearOne(l, c)
    /\ UNCHANGED <<cli, settings, loader, dir_exists, now, last>>

\* clear_cache (base.py:279-315); source = None clears the loader's files
clear_cache(l, source, kwargs) ==
    /\ AllIdle
    /\ LET c == [IdleCall EXCEPT !.op = "clear", !.loader = l,
                                 !.source = source, !.kwargs = kwargs,
                                 !.readable = ParseableIn(files)]
       IN IF ~loader[l].cache_enabled \/ ~dir_exists
          THEN ClearReturns(l, c, {}, {})
          ELSE IF source = None THEN ClearAll(l, c) ELSE ClearOne(l, c)
    /\ UNCHANGED <<cli, settings, loader, dir_exists, now, last>>

\* f.stat().st_size: the length of what was written
st_size(f) == Len(f.content)

RECURSIVE sum(_, _)
sum(fs, S) ==
    IF S = {} THEN 0
    ELSE LET p == CHOOSE x \in S : TRUE IN st_size(fs[p]) + sum(fs, S \ {p})

\* an element of "files" whose valid says only that the file is there
FileInfoValidIfExists(l, fs, p, t) ==
    [path |-> p, size_bytes |-> st_size(fs[p]), modified_time |-> fs[p].mtime,
     age |-> t - fs[p].mtime,
     valid |-> fs[p].exists]

\* one element of "files" (base.py:346-352)
FileInfo(l, fs, p, t) ==
    [path |-> p, size_bytes |-> st_size(fs[p]), modified_time |-> fs[p].mtime,
     age |-> t - fs[p].mtime,
     valid |-> _is_cache_valid(fs[p], t, loader[l].cache_ttl_hours)]

\* base.py:324-331
InfoDisabled(l) ==
    [enabled |-> FALSE, cache_dir |-> loader[l].cache_dir,
     ttl_hours |-> loader[l].cache_ttl_hours, file_count |-> 0,
     total_size_bytes |-> 0, files |-> {}]

\* base.py:333-356
InfoEnabled(l, fs, t) ==
    LET cache_files == glob(fs, loader[l].cache_dir, loader_name(loader[l].cls))
    IN [enabled |-> TRUE, cache_dir |-> loader[l].cache_dir,
        ttl_hours |-> loader[l].cache_ttl_hours,
        file_count |-> Cardinality(cache_files),
        total_size_bytes |-> sum(fs, cache_files),
        files |-> {FileInfo(l, fs, p, t) : p \in cache_files}]

\* an inspection that unlinks the entries it finds expired
get_cache_info_purging(l) ==
    /\ AllIdle
    /\ LET c == [IdleCall EXCEPT !.op = "info", !.loader = l,
                                 !.readable = ParseableIn(files)]
           off == ~loader[l].cache_enabled \/ ~dir_exists
           info == IF off THEN InfoDisabled(l) ELSE InfoEnabled(l, files, now)
           expired == IF off THEN {}
                      ELSE {p \in glob(files, loader[l].cache_dir,
                                       loader_name(loader[l].cls)) :
                               ~_is_cache_valid(files[p], now, loader[l].cache_ttl_hours)}
       IN /\ call' = [call EXCEPT ![l] =
                        [c EXCEPT !.outcome = "result", !.info = info]]
          /\ files' = [p \in DOMAIN files |->
                          IF p \in expired THEN NoFile ELSE files[p]]
    /\ pc' = [pc EXCEPT ![l] = "done"]
    /\ UNCHANGED <<cli, settings, loader, dir_exists, now, last>>

\* get_cache_info (base.py:317-356)
get_cache_info(l) ==
    /\ AllIdle
    /\ LET c == [IdleCall EXCEPT !.op = "info", !.loader = l,
                                 !.readable = ParseableIn(files)]
           info == IF ~loader[l].cache_enabled \/ ~dir_exists
                   THEN InfoDisabled(l)
                   ELSE InfoEnabled(l, files, now)
       IN call' = [call EXCEPT ![l] =
                     [c EXCEPT !.outcome = "result", !.info = info]]
    /\ pc' = [pc EXCEPT ![l] = "done"]
    /\ UNCHANGED <<cli, settings, loader, dir_exists, files, now, last>>

----------------------------------------------------------------------------
(* The environment. *)

\* the cache directory is removed with all it holds while the loaders are
\* idle (base.py:291 and 324 reckon with a directory that is gone)
rmtree ==
    /\ AllIdle
    /\ dir_exists
    /\ dir_exists' = FALSE
    /\ files' = [p \in DOMAIN files |-> NoFile]
    /\ last' = [NoSummary EXCEPT !.op = "rmtree"]
    /\ UNCHANGED <<cli, settings, loader, now, pc, call>>

\* what a reload can find in the environment: the debug switch flipped, or
\* caching off with another TTL and another directory
ReloadedSettings ==
    {[cache_enabled |-> TRUE, cache_ttl_hours |-> 1, cache_dir |-> CacheDir,
      debug |-> FALSE],
     [cache_enabled |-> TRUE, cache_ttl_hours |-> 1, cache_dir |-> CacheDir,
      debug |-> TRUE],
     [cache_enabled |-> FALSE, cache_ttl_hours |-> 2, cache_dir |-> CustomDir,
      debug |-> TRUE]}

\* a TTL field whose lower limit is 0
ValidTtlHoursFromZero(v) == v \in 0..168

\* cache_ttl_hours: int = Field(..., ge=1, le=168) (config/settings.py:44-46)
ValidTtlHours(v) == v \in 1..168

\* reload_settings (config/settings.py:236-246) with the environment holding
\* one of E: AppSettings() validates what it reads, and the global is
\* rebound only when the constructor has returned
reload_settings_from(E) ==
    /\ AllIdle
    /\ \E env \in E :
          /\ env # settings
          /\ IF ValidTtlHours(env.cache_ttl_hours)
             THEN /\ settings' = env
                  /\ last' = [NoSummary EXCEPT !.op = "reload_settings",
                                               !.outcome = "result",
                                               !.env = {env.cache_ttl_hours}]
             ELSE /\ settings' = settings
                  /\ last' = [NoSummary EXCEPT !.op = "reload_settings",
                                               !.outcome = "ValidationError",
                                               !.env = {env.cache_ttl_hours}]
    /\ UNCHANGED <<cli, loader, dir_exists, files, now, pc, call>>

\* reload_settings between two calls of the loader
reload_settings == reload_settings_from(ReloadedSettings)

\* another writer puts unparseable content at a derived path while the
\* loader is idle (test_base.py:338-339, cache_path.write_text("invalid json"))
WriteText(p) ==
    /\ AllIdle
    /\ dir_exists
    /\ files' = [files EXCEPT ![p] = PartialWrite(now)]
    /\ last' = [NoSummary EXCEPT !.op = "write_text"]
    /\ UNCHANGED <<cli, settings, loader, dir_exists, now, pc, call>>

\* time.time() advances between calls and inside the blocking points
Blocking == {"idle", "fetch", "save", "load_from_cache"}

\* the time a call has spent so far inside its fetch and inside its save
Waited(c, at) ==
    [c EXCEPT !.fetch_secs = @ + (IF at = "fetch" THEN 1 ELSE 0),
              !.save_secs = @ + (IF at = "save" THEN 1 ELSE 0)]

Tick ==
    /\ now < MaxTime
    /\ \A l \in LoaderIds : pc[l] \in Blocking
    /\ now' = now + 1
    /\ call' = [l \in LoaderIds |-> Waited(call[l], pc[l])]
    /\ UNCHANGED <<cli, settings, loader, dir_exists, files, pc, last>>

----------------------------------------------------------------------------

\* the steps of the loads of the requests R (<<source, kwargs>>)
Calls(R) ==
    \/ \E l \in LoaderIds, r \in R : load_data(l, r[1], r[2])
    \/ \E l \in LoaderIds : Lookup(l)
    \/ \E l \in LoaderIds : LoadFromCache(l)
    \/ \E l \in LoaderIds : HandleReadError(l)
    \/ \E l \in LoaderIds : Fetch(l)
    \/ \E l \in LoaderIds : Save(l)
    \/ \E l \in LoaderIds : HandleSaveError(l)
    \/ \E l \in LoaderIds : Return(l)
    \/ \E l \in LoaderIds : Finish(l)

\* the steps of a program whose caller asks for the requests R, with
\* another writer in the cache directory and the clock
NextFor(R) ==
    \/ Calls(R)
    \/ \E p \in PathsFor(R) : WriteText(p)
    \/ Tick

\* the steps of a program whose caller asks for the sources S, no parameters
NextOver(S) == NextFor(S \X KwargsUsed)

Next == NextOver(Sources)

Spec == Init /\ [][Next]_vars

\* load_data is one synchronous call: once entered, each of its blocks runs
\* to its end, given that the loader's fetch, read and write return
CallRuns(l) ==
    /\ WF_vars(Lookup(l))
    /\ WF_vars(LoadFromCache(l))
    /\ WF_vars(HandleReadError(l))
    /\ WF_vars(Fetch(l))
    /\ WF_vars(Save(l))
    /\ WF_vars(HandleSaveError(l))
    /\ WF_vars(Return(l))

FairSpec == Spec /\ \A l \in OneLoader : CallRuns(l)

----------------------------------------------------------------------------
(* Keying: one caching loader asked for requests that differ in the source, *)
(* in the parameters, or only in the order of the parameters               *)
(* (test_base.py:367-405).  The calls follow one another within one tick   *)
(* of the clock, so that every entry written is still fresh.               *)

KeyRequests ==
    {<<"source1", ParamAExtraV>>, <<"source1", ExtraVParamA>>,
     <<"source1", ParamA>>, <<"source2", ParamAExtraV>>}

InitKeys ==
    /\ settings \in {s \in SettingsValues : s.cache_enabled /\ ~s.debug}
    /\ loader = [l \in OneLoader |->
                    BaseDataLoader_init("TestDataLoader", TRUE, {}, {}, settings)]
    /\ dir_exists = TRUE
    /\ files = [p \in AllPaths |-> NoFile]
    /\ now = 0
    /\ pc = [l \in OneLoader |-> "idle"]
    /\ call = [l \in OneLoader |-> IdleCall]
    /\ last = NoSummary
    /\ cli = NoCli

NextKeys == Calls(KeyRequests)

KeySpec == InitKeys /\ [][NextKeys]_vars

----------------------------------------------------------------------------
(* The cache directory shared by two loaders of one process: a             *)
(* TestDataLoader and a loader of a second concrete type, loading two      *)
(* sources, clearing and inspecting the cache (test_base.py:479-541).  The *)
(* calls follow one another within one tick of the clock.                  *)

TwoLoaders == {1, 2}

\* the type of the second loader
SecondClasses == {"TestData"}

DirRequests == {<<"source1", NoKwargs>>, <<"source2", NoKwargs>>}

\* the sources clear_cache is given; None clears all
ClearSources == {None, "source1", "source2", SurrogateSource}

InitDir ==
    /\ settings \in {s \in SettingsValues : s.cache_enabled /\ ~s.debug}
    /\ \E en \in BOOLEAN, cls \in SecondClasses :
          loader = (1 :> BaseDataLoader_init("TestDataLoader", en, {}, {}, settings))
                   @@ (2 :> BaseDataLoader_init(cls, TRUE, {}, {}, settings))
    /\ dir_exists = TRUE
    /\ files = [p \in AllPaths |-> NoFile]
    /\ now = 0
    /\ pc = [l \in TwoLoaders |-> "idle"]
    /\ call = [l \in TwoLoaders |-> IdleCall]
    /\ last = NoSummary
    /\ cli = NoCli

NextDir ==
    \/ Calls(DirRequests)
    \/ \E l \in LoaderIds, s \in ClearSources : clear_cache(l, s, NoKwargs)
    \/ \E l \in LoaderIds : get_cache_info(l)
    \/ \E p \in PathsFor(DirRequests) : WriteText(p)
    \/ rmtree

DirSpec == InitDir /\ [][NextDir]_vars

----------------------------------------------------------------------------
(* The life of one cache entry: the one loader of Spec loading, clearing   *)
(* and inspecting, with the other writer, the clock and the removal of the *)
(* directory.                                                              *)

ClearSourcesOne == {None, "source1", SurrogateSource}

NextLife ==
    \/ Next
    \/ \E l \in LoaderIds, s \in ClearSourcesOne : clear_cache(l, s, NoKwargs)
    \/ \E l \in LoaderIds : get_cache_info(l)
    \/ rmtree

LifeSpec == Init /\ [][NextLife]_vars

----------------------------------------------------------------------------
(* Inspection: one loader, caching on or off, loading two sources and      *)
(* calling get_cache_info while the clock runs and another writer leaves   *)
(* files in the directory (test_base.py:544-592).                          *)

InitInfo ==
    /\ settings \in {s \in SettingsValues : s.cache_enabled /\ ~s.debug}
    /\ \E en \in BOOLEAN :
          loader = [l \in OneLoader |->
                       BaseDataLoader_init("TestDataLoader", en, {}, {}, settings)]
    /\ dir_exists = TRUE
    /\ files = [p \in AllPaths |-> NoFile]
    /\ now = 0
    /\ pc = [l \in OneLoader |-> "idle"]
    /\ call = [l \in OneLoader |-> IdleCall]
    /\ last = NoSummary
    /\ cli = NoCli

NextInfo ==
    \/ NextFor(DirRequests)
    \/ \E l \in LoaderIds : get_cache_info(l)

InfoSpec == InitInfo /\ [][NextInfo]_vars

----------------------------------------------------------------------------
(* Construction: one caching loader built with or without a TTL and a      *)
(* directory of its own (test_base.py:109-147), then loading one source    *)
(* while the clock runs.  The settings' TTL is at least 1                   *)
(* (config/settings.py:44-46, ge=1).                                       *)

\* the TTL arguments: none, zero, negative, positive
CtorTtlGiven == {{}, {0}, {-1}, {2}}

\* the directory arguments: none, or a directory of the loader's own
CtorDirGiven == {{}, {CustomDir}}

InitCtor ==
    /\ settings \in {s \in SettingsValues : s.cache_enabled /\ ~s.debug}
    /\ \E ttl \in CtorTtlGiven, dir \in CtorDirGiven :
          loader = [l \in OneLoader |->
                       BaseDataLoader_init("TestDataLoader", TRUE, ttl, dir, settings)]
    /\ dir_exists = TRUE
    /\ files = [p \in AllPaths |-> NoFile]
    /\ now = 0
    /\ pc = [l \in OneLoader |-> "idle"]
    /\ call = [l \in OneLoader |-> IdleCall]
    /\ last = NoSummary
    /\ cli = NoCli

CtorSpec == InitCtor /\ [][Next]_vars

----------------------------------------------------------------------------
(* Reloading: one caching loader, built while the settings had caching on, *)
(* loading, clearing and inspecting while the global settings are reloaded *)
(* between its calls.                                                      *)

InitReload ==
    /\ settings \in {s \in ReloadedSettings : s.cache_enabled}
    /\ loader = [l \in OneLoader |->
                    BaseDataLoader_init("TestDataLoader", TRUE, {}, {}, settings)]
    /\ dir_exists = TRUE
    /\ files = [p \in AllPaths |-> NoFile]
    /\ now = 0
    /\ pc = [l \in OneLoader |-> "idle"]
    /\ call = [l \in OneLoader |-> IdleCall]
    /\ last = NoSummary
    /\ cli = NoCli

NextReload ==
    \/ Next
    \/ \E l \in LoaderIds, s \in ClearSourcesOne : clear_cache(l, s, NoKwargs)
    \/ \E l \in LoaderIds : get_cache_info(l)
    \/ reload_settings

ReloadSpec == InitReload /\ [][NextReload]_vars

----------------------------------------------------------------------------
(* Validation: the one loader of Spec loading, within one tick of the      *)
(* clock, while the settings are reloaded from an environment whose TTL is *)
(* inside, at the limits of or outside the range of the field              *)
(* (test_settings.py:149-163).                                             *)

EnvSettings ==
    [cache_enabled : {TRUE}, cache_ttl_hours : {0, 1, 2, 168, 169},
     cache_dir : {CacheDir}, debug : {FALSE}]

NextEnv ==
    \/ Calls(Sources \X KwargsUsed)
    \/ reload_settings_from(EnvSettings)

EnvSpec == Init /\ [][NextEnv]_vars

----------------------------------------------------------------------------
(* Round trip: one caching loader of one process, asked for one source     *)
(* without parameters and with a bounding box, and clearing its cache; no  *)
(* other writer, and the calls follow one another within one tick of the   *)
(* clock.                                                                  *)

BboxRequests == {<<"source1", NoKwargs>>, <<"source1", ParamBbox>>}

BboxClears == {<<None, NoKwargs>>, <<"source1", ParamBbox>>}

NextBbox ==
    \/ Calls(BboxRequests)
    \/ \E l \in LoaderIds, r \in BboxClears : clear_cache(l, r[1], r[2])

BboxSpec == InitKeys /\ [][NextBbox]_vars

----------------------------------------------------------------------------
(* Two processes: each holds a caching TestDataLoader over the one cache   *)
(* directory and loads the same source; their calls interleave block by    *)
(* block, with no lock (base.py:116-146).  The other writer leaves an      *)
(* unreadable entry while both are idle.  The faults of these runs are the *)
(* failed read of such an entry and the save that fails before it writes;  *)
(* fetches and unlinks succeed.                                            *)

RaceRequests == {<<"source1", NoKwargs>>}

InitRace ==
    /\ settings \in {s \in SettingsValues : s.cache_enabled /\ ~s.debug}
    /\ loader = [l \in TwoLoaders |->
                    BaseDataLoader_init("TestDataLoader", TRUE, {}, {}, settings)]
    /\ dir_exists = TRUE
    /\ files = [p \in AllPaths |-> NoFile]
    /\ now = 0
    /\ pc = [l \in TwoLoaders |-> "idle"]
    /\ call = [l \in TwoLoaders |-> IdleCall]
    /\ last = NoSummary
    /\ cli = NoCli

\* the step is none of the faults left out
RaceFaults ==
    /\ \A l \in LoaderIds : ~call'[l].fetch_failed /\ ~call'[l].unlink_failed
    /\ \A p \in DOMAIN files :
          (files'[p] # files[p] /\ files'[p].content = InvalidJson) => AllIdle

RaceSteps ==
    \/ \E l \in LoaderIds, r \in RaceRequests : load_data_in_process(l, r[1], r[2])
    \/ Calls(RaceRequests)
    \/ \E p \in PathsFor(RaceRequests) : WriteText(p)

NextRace == RaceSteps /\ RaceFaults

RaceSpec == InitRace /\ [][NextRace]_vars

----------------------------------------------------------------------------
(* Aggregation: count_stations_in_area applied to datasets of one or two   *)
(* stations inside, on the edge of, or outside the box                     *)
(* (test_cli.py:77-112), whose count columns hold integers, hold no value  *)
(* for a station (NaN, None), hold text, or are not there.                 *)

BBox == <<0, 0, 2, 2>>

\* inside, on the edge, outside
Points == {<<1, 1>>, <<2, 1>>, <<3, 3>>}

\* the rows drawn
Stations ==
    [geometry : Points,
     a1 : {IntValue(1), NaN, NoneValue, Str, Absent},
     d1 : {IntValue(2), Absent},
     a2 : {IntValue(3), Absent},
     d2 : {IntValue(4), Str}]

\* a column is there for every row or for none
Columns(gdf) ==
    \A k \in CountKeys :
        \A i, j \in DOMAIN gdf : gdf[i][k] = Absent <=> gdf[j][k] = Absent

InitCli ==
    /\ settings \in {s \in SettingsValues : s.cache_enabled /\ ~s.debug}
    /\ loader = [l \in OneLoader |->
                    BaseDataLoader_init("RailwayDataLoader", TRUE, {}, {}, settings)]
    /\ dir_exists = TRUE
    /\ files = [p \in AllPaths |-> NoFile]
    /\ now = 0
    /\ pc = [l \in OneLoader |-> "idle"]
    /\ call = [l \in OneLoader |-> IdleCall]
    /\ last = NoSummary
    /\ \E gdf \in {g \in {<<s>> : s \in Stations}
                           \cup {<<s, u>> : s \in Stations, u \in Stations} :
                       Columns(g)} :
          cli = [NoCli EXCEPT !.gdf = gdf, !.bbox = BBox]

NextCli == count_stations_in_area

CliSpec == InitCli /\ [][NextCli]_vars

----------------------------------------------------------------------------
(* Properties.  A finished call is read in the state where the caller      *)
(* holds its outcome (pc = "done"); `last` is the operation before it.     *)

LoadDone(l) == pc[l] = "done" /\ call[l].op = "load"

\* the TTL of loader l in model seconds
TtlSeconds(l) == loader[l].cache_ttl_hours * SecondsPerHour

\* the entry the lookup of the call found was within the TTL
FoundFresh(l) == call[l].pre.exists /\ call[l].pre.age <= TtlSeconds(l)

\* the operation before the finished call was a load of the same key by
\* the same loader, and it returned a result
FollowsLoad(l) ==
    /\ last.op = "load"
    /\ last.loader = l
    /\ last.source = call[l].source
    /\ last.kwargs = call[l].kwargs
    /\ last.outcome = "result"

\* C1: with caching on, a load that starts from an empty cache directory
\* returns cached = FALSE; when its serialize step succeeded and the next
\* operation is a load of the same key whose lookup comes within the TTL,
\* that load returns cached = TRUE and the two calls fetch once in total.
C1_HitAfterMiss ==
    \A l \in LoaderIds :
        (LoadDone(l) /\ loader[l].cache_enabled) =>
            /\ (call[l].dir_empty /\ call[l].outcome = "result")
                   => ~call[l].result.cached
            /\ (/\ FollowsLoad(l)
                /\ last.dir_empty
                /\ last.saved
                /\ call[l].pre.age <= TtlSeconds(l))
                   => /\ ~last.cached
                      /\ call[l].outcome = "result"
                      /\ call[l].result.cached
                      /\ last.fetches + call[l].fetches = 1

C1_Witness ==
    \E l \in LoaderIds :
        /\ LoadDone(l) /\ loader[l].cache_enabled
        /\ FollowsLoad(l) /\ last.dir_empty /\ last.saved
        /\ call[l].pre.age = TtlSeconds(l)
        /\ call[l].result.cached

\* C2: a returned result has cached = TRUE iff the call did not fetch and
\* its payload is what deserializing the entry at the derived path gave,
\* and cached = FALSE iff the call fetched exactly once and its payload is
\* what the fetch returned; a call returns without fetching only after a
\* successful deserialize of a fresh entry.
C2_CachedIffNotFetched ==
    \A l \in LoaderIds :
        (LoadDone(l) /\ call[l].outcome = "result") =>
            LET c == call[l] IN
            /\ c.result.cached <=>
                  /\ c.fetches = 0
                  /\ c.cache_path = PathOf(l, c)
                  /\ c.result.data = c.pre.data
                  /\ c.result.data # NoData
            /\ ~c.result.cached <=>
                  /\ c.fetches = 1
                  /\ c.result.data = c.fetched
                  /\ c.result.data # NoData
            /\ c.fetches = 0 =>
                  /\ FoundFresh(l)
                  /\ c.desers = 1
                  /\ ~c.deser_failed

\* a hit that returns the entry's payload without fetching
C2_Witness ==
    \E l \in LoaderIds :
        /\ LoadDone(l) /\ call[l].result.cached
        /\ call[l].fetches = 0
        /\ call[l].result.data = call[l].pre.data
        /\ call[l].result.data.version = MaxVersion

\* C3: with caching on, when the entry a load wrote is older than the TTL
\* at the lookup of the next load of the same key, that load fetches (a
\* second fetch) and, if it returns, returns cached = FALSE.
C3_ExpiredEntryIsRefetched ==
    \A l \in LoaderIds :
        (/\ LoadDone(l) /\ loader[l].cache_enabled
         /\ FollowsLoad(l) /\ last.saved
         /\ call[l].pre.age > TtlSeconds(l))
            => /\ last.fetches = 1
               /\ call[l].fetches = 1
               /\ call[l].desers = 0
               /\ call[l].outcome = "result" => ~call[l].result.cached

C3_Witness ==
    \E l \in LoaderIds :
        /\ LoadDone(l) /\ loader[l].cache_enabled
        /\ FollowsLoad(l) /\ last.saved
        /\ call[l].pre.exists /\ call[l].pre.age > TtlSeconds(l)
        /\ call[l].outcome = "result" /\ ~call[l].result.cached

\* C4: a lookup is a hit (the entry is read) iff the file at the derived
\* path exists and its age is at most the TTL; age = TTL is a hit.
C4_HitIffExistsAndWithinTtl ==
    \A l \in LoaderIds :
        (LoadDone(l) /\ call[l].looked) =>
            (call[l].desers = 1 <=>
                (call[l].pre.exists /\ call[l].pre.age <= TtlSeconds(l)))

\* an entry of exactly the TTL's age is read
C4_Witness ==
    \E l \in LoaderIds :
        /\ LoadDone(l) /\ call[l].looked
        /\ call[l].pre.exists /\ call[l].pre.age = TtlSeconds(l)
        /\ call[l].desers = 1

\* the lookup of the finished call found a fresh entry that could not be
\* deserialized, and the fetch that followed succeeded
CorruptEntryRefetched(l) ==
    /\ LoadDone(l)
    /\ FoundFresh(l)
    /\ call[l].deser_failed
    /\ call[l].fetches = 1
    /\ ~call[l].fetch_failed

Unparseable(snapshot) == snapshot.exists /\ snapshot.content = InvalidJson

\* C5 as stated: a load that finds a fresh entry it cannot deserialize and
\* whose fetch succeeds returns a result with cached = FALSE, and after the
\* call the derived path holds no unparseable content.
C5_CorruptEntryGone_AsStated ==
    \A l \in LoaderIds :
        CorruptEntryRefetched(l) =>
            /\ call[l].outcome = "result"
            /\ ~call[l].result.cached
            /\ ~Unparseable(call[l].post)

\* C5 as amended: the same, except that the path may still hold
\* unparseable content when, in that call, the serialize step failed and a
\* best-effort deletion failed too.
C5_CorruptEntryGone ==
    \A l \in LoaderIds :
        CorruptEntryRefetched(l) =>
            /\ call[l].outcome = "result"
            /\ ~call[l].result.cached
            /\ ~(call[l].ser_failed /\ call[l].unlink_failed)
                   => ~Unparseable(call[l].post)

\* the corrupted entry is deleted, and the serialize step fails afterwards
C5_Witness ==
    \E l \in LoaderIds :
        /\ CorruptEntryRefetched(l)
        /\ Unparseable(call[l].pre)
        /\ call[l].ser_failed /\ ~call[l].unlink_failed
        /\ ~call[l].post.exists
        /\ call[l].outcome = "result"

\* C6: no load call fetches more than once; a call whose fetch failed ends
\* with a DataLoadError carrying the requested source, and returns no result.
C6_FetchFailureIsFatal ==
    \A l \in LoaderIds :
        /\ call[l].fetches <= 1
        /\ (LoadDone(l) /\ call[l].fetch_failed) =>
               /\ call[l].outcome = "error"
               /\ call[l].error.type = "DataLoadError"
               /\ call[l].error.source = call[l].source
               /\ call[l].result = NoResult
               /\ call[l].fetches = 1

\* a fetch failure after a corrupted entry had been read
C6_Witness ==
    \E l \in LoaderIds :
        /\ LoadDone(l) /\ call[l].fetch_failed
        /\ call[l].deser_failed
        /\ call[l].outcome = "error"

C8_OnlyFetchFailureRaises ==
    \A l \in LoaderIds :
        (LoadDone(l) /\ call[l].outcome = "error") =>
            /\ call[l].fetches = 1
            /\ call[l].fetch_failed

C10_DisabledCacheAlwaysFetches ==
    \A l \in LoaderIds :
        (LoadDone(l) /\ ~loader[l].cache_enabled) =>
            /\ ~call[l].looked
            /\ call[l].desers = 0 /\ call[l].sers = 0
            /\ call[l].fetches = 1
            /\ call[l].outcome = "result" =>
                  (~call[l].result.cached /\ call[l].result.data = call[l].fetched)
            /\ (FollowsLoad(l) /\ call[l].outcome = "result") =>
                  /\ ~last.cached
                  /\ last.desers = 0 /\ last.sers = 0
                  /\ last.fetches + call[l].fetches = 2

\* the second of two loads of one key, an unparseable file lying at the
\* path a caching loader would derive
C10_Witness ==
    \E l \in LoaderIds :
        /\ LoadDone(l) /\ ~loader[l].cache_enabled
        /\ FollowsLoad(l) /\ call[l].outcome = "result"
        /\ call[l].post.exists

\* the blocks of load_data in the order of the source text
Rank(p) ==
    CASE p = "idle" -> 0
      [] p = "lookup" -> 1
      [] p = "load_from_cache" -> 2
      [] p = "read_error" -> 3
      [] p = "fetch" -> 4
      [] p = "save" -> 5
      [] p = "save_error" -> 6
      [] p = "return" -> 7
      [] p = "done" -> 8

\* the moves between the blocks of one call: START is the step that leaves
\* "idle", CACHE_LOOKUP is "lookup", DESERIALIZE is "load_from_cache" (with
\* its handler "read_error"), FETCH_FRESH is "fetch", SERIALIZE_BEST_EFFORT
\* is "save" (with its handler "save_error"; the attempt is skipped with
\* caching off), RETURN_FRESH is "return"; "done" holds the outcome
Allowed(l, p, q) ==
    LET c == call'[l] IN
    \/ p = "idle" /\ q = "lookup" /\ loader[l].cache_enabled
    \/ p = "idle" /\ q = "fetch" /\ ~loader[l].cache_enabled
    \/ p = "lookup" /\ q \in {"load_from_cache", "fetch"}
    \/ p = "lookup" /\ q = "done" /\ c.outcome = "error"
    \/ p = "load_from_cache" /\ q = "done" /\ c.outcome = "result" /\ c.result.cached
    \/ p = "load_from_cache" /\ q = "read_error"
    \/ p = "read_error" /\ q = "fetch"
    \/ p = "fetch" /\ q = "save" /\ loader[l].cache_enabled
    \/ p = "fetch" /\ q = "return" /\ ~loader[l].cache_enabled
    \/ p = "fetch" /\ q = "done" /\ c.outcome = "error"
    \/ p = "save" /\ q \in {"save_error", "return"}
    \/ p = "save_error" /\ q = "return"
    \/ p = "return" /\ q = "done" /\ c.outcome = "result" /\ ~c.result.cached
    \/ p = "done" /\ q = "idle"

\* a step of a load call moves to a later block along an allowed move,
\* and no block is run a second time: while the call stays in a block it
\* does nothing but wait there
CallStep(l) ==
    /\ pc'[l] # pc[l] =>
           /\ Allowed(l, pc[l], pc'[l])
           /\ pc'[l] # "idle" => Rank(pc'[l]) > Rank(pc[l])
    /\ (pc'[l] = pc[l] /\ call[l].op = "load") =>
           call'[l] \in {call[l], Waited(call[l], pc[l])}

\* the call has ended: a cached result, a fresh result or a DataLoadError
Ended(l) ==
    /\ pc[l] = "done"
    /\ \/ call[l].outcome = "result"
       \/ call[l].outcome = "error" /\ call[l].error.type = "DataLoadError"

\* C11: each load call moves START, CACHE_LOOKUP, then DESERIALIZE and
\* RETURN_CACHED, or FETCH_FRESH (from a miss, from a deserialize failure,
\* or directly with caching off), SERIALIZE_BEST_EFFORT, RETURN_FRESH; no
\* block is entered twice in a call; and, the loader's fetch, read and write
\* returning, every call ends with a cached result, a fresh result or a
\* DataLoadError.
C11_CallOrder ==
    /\ [][\A l \in OneLoader : CallStep(l)]_vars
    /\ \A l \in OneLoader : (pc[l] \notin {"idle", "done"}) ~> Ended(l)

\* a call that went through every block of the fresh path
C11_Witness ==
    \E l \in OneLoader :
        /\ LoadDone(l) /\ call[l].outcome = "result"
        /\ call[l].looked /\ call[l].deser_failed /\ call[l].unlinks = 2
        /\ call[l].fetches = 1 /\ call[l].ser_failed

\* the operation before the finished call was a returning load by the
\* same loader
FollowsAnyLoad(l) ==
    /\ last.op = "load"
    /\ last.loader = l
    /\ last.outcome = "result"

\* C12: the derived path depends on the parameters as a mapping, not on
\* the order they are supplied in: requests with the same source and the
\* same items get the same path, and a load whose items were saved by the
\* load before it, in whatever order, finds that entry and returns it
\* without fetching.
C12_PathIgnoresParameterOrder ==
    /\ \A c \in ClassNames, s \in EncodableSources, k1 \in AllKwargs, k2 \in AllKwargs :
           AsDict(k1) = AsDict(k2) =>
               _get_cache_path(c, CacheDir, s, k1) = _get_cache_path(c, CacheDir, s, k2)
    /\ \A l \in LoaderIds :
           (/\ LoadDone(l) /\ FollowsAnyLoad(l) /\ last.saved
            /\ last.source = call[l].source
            /\ AsDict(last.kwargs) = AsDict(call[l].kwargs)
            /\ call[l].pre.age <= TtlSeconds(l))
               => /\ call[l].pre.exists
                  /\ call[l].outcome = "result"
                  /\ call[l].result.cached
                  /\ call[l].fetches = 0

\* a hit on the entry saved under the other order of the parameters
C12_Witness ==
    \E l \in LoaderIds :
        /\ LoadDone(l) /\ FollowsAnyLoad(l) /\ last.saved
        /\ last.source = call[l].source
        /\ last.kwargs # call[l].kwargs
        /\ AsDict(last.kwargs) = AsDict(call[l].kwargs)
        /\ call[l].result.cached

\* the two requests differ in the source or in the parameters
Differ(s1, k1, s2, k2) == s1 # s2 \/ AsDict(k1) # AsDict(k2)

\* the paths one class derives for two requests that differ are different
DifferentRequestsDifferentPaths ==
    \A c \in ClassNames, s1 \in EncodableSources, s2 \in EncodableSources,
       k1 \in AllKwargs, k2 \in AllKwargs :
        Differ(s1, k1, s2, k2) =>
            _get_cache_path(c, CacheDir, s1, k1) # _get_cache_path(c, CacheDir, s2, k2)

\* C13: for one loader, requests that differ in the source, or in the
\* parameters for the same source, get different paths; a hit returns the
\* payload fetched for the very source and parameters of the call, and a
\* load that follows a load of a different request into an empty directory
\* finds no entry.
C13_DistinctRequestsDistinctPaths ==
    /\ DifferentRequestsDifferentPaths
    /\ \A l \in LoaderIds :
           LoadDone(l) =>
               /\ (call[l].outcome = "result" /\ call[l].result.cached) =>
                      /\ call[l].result.data.source = call[l].source
                      /\ call[l].result.data.kwargs = AsDict(call[l].kwargs)
               /\ (/\ FollowsAnyLoad(l) /\ last.dir_empty
                   /\ Differ(last.source, last.kwargs, call[l].source, call[l].kwargs))
                      => /\ ~call[l].pre.exists
                         /\ call[l].desers = 0
                         /\ call[l].outcome = "result" => ~call[l].result.cached

\* a miss right after the same source was saved under other parameters
C13_Witness ==
    \E l \in LoaderIds :
        /\ LoadDone(l) /\ FollowsAnyLoad(l) /\ last.dir_empty /\ last.saved
        /\ last.source = call[l].source
        /\ AsDict(last.kwargs) # AsDict(call[l].kwargs)
        /\ call[l].looked /\ ~call[l].pre.exists
        /\ call[l].outcome = "result" /\ ~call[l].result.cached

\* the caller holds the return value of a clear_cache call
ClearDone(l) == pc[l] = "done" /\ call[l].op = "clear"

\* the path the last operation, a load that saved its entry, wrote
LastPath ==
    _get_cache_path(loader[last.loader].cls, loader[last.loader].cache_dir,
                    last.source, last.kwargs)

\* the operation before the finished call of l was a load by a loader of
\* another type, which saved its entry
OtherTypeSaved(l) ==
    /\ last.op = "load" /\ last.saved
    /\ last.loader \in LoaderIds \ {l}
    /\ loader[last.loader].cls # loader[l].cls

\* C14 as stated: loaders of two different types share the directory
\* without colliding: a load of one type does not derive the path of the
\* entry a loader of the other type has just saved, and clear_cache()
\* without a source on one type does not delete that entry.
C14_TypesDoNotCollide ==
    \A l \in LoaderIds :
        OtherTypeSaved(l) =>
            /\ (LoadDone(l) /\ call[l].looked) => call[l].cache_path # LastPath
            /\ (ClearDone(l) /\ call[l].source = None) => LastPath \notin call[l].deleted

\* the files in the directory that carry the prefix of loader l
OwnFiles(l, fs) == glob(fs, loader[l].cache_dir, loader_name(loader[l].cls))

\* loader l can clear: caching is on and the directory is there
CanClear(l) == loader[l].cache_enabled /\ dir_exists

\* the step is a clear_cache() call of loader l without a source
ClearAllStep(l) ==
    /\ pc[l] = "idle" /\ pc'[l] = "done"
    /\ call'[l].op = "clear" /\ call'[l].source = None

\* the operation before the finished call was clear_cache() by loader l
FollowsClearAll(l) ==
    /\ last.op = "clear" /\ last.loader = l /\ last.source = None
    /\ last.outcome = "result"

\* C15 as stated: with caching on and the directory present, clear_cache()
\* leaves no file with the loader's prefix and returns the number of files
\* it deleted; the load that follows is a miss.
C15_ClearAllDeletesAll_AsStated ==
    \A l \in LoaderIds :
        CanClear(l) =>
            /\ (ClearDone(l) /\ call[l].source = None) =>
                   /\ OwnFiles(l, files) = {}
                   /\ call[l].count = Cardinality(call[l].deleted)
            /\ (LoadDone(l) /\ FollowsClearAll(l)) =>
                   /\ ~call[l].pre.exists
                   /\ call[l].outcome = "result" => ~call[l].result.cached

\* C15 as amended: clear_cache() deletes every file with the loader's
\* prefix except those whose deletion fails, which stay as they are; it
\* touches no other file and returns the number of files actually removed;
\* the load that follows, of a request whose file was removed, is a miss.
C15_ClearAllDeletesAll ==
    /\ [][\A l \in LoaderIds :
            (ClearAllStep(l) /\ CanClear(l)) =>
                LET before == OwnFiles(l, files)
                    after == OwnFiles(l, files')
                IN /\ after \subseteq before
                   /\ call'[l].outcome = "result"
                   /\ call'[l].count = Cardinality(before \ after)
                   /\ call'[l].deleted = before \ after
                   /\ ~call'[l].unlink_failed => after = {}
                   /\ \A p \in DOMAIN files :
                          files'[p] = IF p \in before \ after THEN NoFile ELSE files[p]]_vars
    /\ [](\A l \in LoaderIds :
            (/\ LoadDone(l) /\ FollowsClearAll(l) /\ call[l].looked
             /\ call[l].cache_path \in last.deleted)
                => /\ ~call[l].pre.exists
                   /\ call[l].desers = 0
                   /\ call[l].fetches = 1
                   /\ call[l].outcome = "result" => ~call[l].result.cached)

\* two entries cleared (test_base.py:497-499), then a load of one of them
C15_Witness ==
    \E l \in LoaderIds :
        /\ LoadDone(l) /\ FollowsClearAll(l)
        /\ last.count = 2
        /\ call[l].cache_path \in last.deleted
        /\ call[l].outcome = "result" /\ ~call[l].result.cached

\* the step is a clear_cache(source, ...) call of loader l
ClearOneStep(l) ==
    /\ pc[l] = "idle" /\ pc'[l] = "done"
    /\ call'[l].op = "clear" /\ call'[l].source # None

\* the path clear_cache(source, ...) derives in the step
ClearedPath(l) ==
    _get_cache_path(loader[l].cls, loader[l].cache_dir,
                    call'[l].source, call'[l].kwargs)

\* the operation before the finished call was clear_cache(source, ...) by
\* loader l, for another request than the call's
FollowsClearOfOther(l) ==
    /\ last.op = "clear" /\ last.loader = l /\ last.source # None
    /\ last.outcome = "result"
    /\ Differ(last.source, last.kwargs, call[l].source, call[l].kwargs)

ClearStep(l) ==
    /\ pc[l] = "idle" /\ pc'[l] = "done"
    /\ call'[l].op = "clear"

\* C17: when caching is off for the loader or the cache directory is not
\* there, clear_cache, with or without a source, returns 0 and leaves every
\* file as it is, files with the loader's prefix included.
C17_ClearIsNoOpWhenOff ==
    [][\A l \in LoaderIds :
         (ClearStep(l) /\ ~CanClear(l)) =>
             /\ call'[l].outcome = "result"
             /\ call'[l].count = 0
             /\ files' = files
             /\ dir_exists' = dir_exists]_vars

\* a loader with caching off has cleared, and a file with its prefix is
\* still in the directory
C17_Witness ==
    \E l \in LoaderIds :
        /\ ClearDone(l) /\ ~loader[l].cache_enabled /\ dir_exists
        /\ call[l].source = None
        /\ call[l].outcome = "result" /\ call[l].count = 0
        /\ OwnFiles(l, files) # {}

\* the step belongs to a call of a loader (not to the clock, the other
\* writer or the removal of the directory)
LoaderStep == pc' # pc

\* the step removes the file at p
Removes(p) == files[p].exists /\ ~files'[p].exists

\* the step puts other content at p
Overwrites(p) == files[p].exists /\ files'[p].exists /\ files'[p] # files[p]

\* the step is a clear_cache that deleted p
ClearRemoves(p) == \E l \in LoaderIds : ClearStep(l) /\ p \in call'[l].deleted

\* the step is the handler after a failed read of the entry at p
ReadErrorRemoves(p) ==
    \E l \in LoaderIds :
        /\ pc[l] = "read_error" /\ call[l].deser_failed
        /\ call[l].cache_path = p

\* the step is the handler after a failed save to p
SaveErrorRemoves(p) ==
    \E l \in LoaderIds :
        /\ pc[l] = "save_error" /\ call[l].ser_failed
        /\ call[l].cache_path_save = p

\* the step is the save of a load of p's key that has fetched
SaveWrites(p) ==
    \E l \in LoaderIds :
        /\ pc[l] = "save" /\ call[l].op = "load"
        /\ call[l].fetches >= 1 /\ ~call[l].fetch_failed
        /\ PathOf(l, call[l]) = p

\* the lookup of a load leaves every file as it is
LookupKeeps == \A l \in LoaderIds : pc[l] = "lookup" => files' = files

\* C18 as stated: a loader removes an entry file only in clear_cache or in
\* the handler after a failed read of that entry; the lookup deletes
\* nothing, and an entry is overwritten only by the save after a fetch for
\* its key.
C18_RemovedOnlyByClearOrReadError_AsStated ==
    [][LoaderStep =>
          /\ LookupKeeps
          /\ \A p \in DOMAIN files :
                /\ Removes(p) => ClearRemoves(p) \/ ReadErrorRemoves(p)
                /\ Overwrites(p) => SaveWrites(p)]_vars

\* C18: a loader removes an entry file only in clear_cache, in the handler
\* after a failed read of that entry, or in the handler after a failed save
\* to that entry's path; the lookup deletes nothing, and an entry is
\* overwritten only by the save after a fetch for its key.
C18_RemovedOnlyByClearOrHandler ==
    [][LoaderStep =>
          /\ LookupKeeps
          /\ \A p \in DOMAIN files :
                /\ Removes(p) =>
                      ClearRemoves(p) \/ ReadErrorRemoves(p) \/ SaveErrorRemoves(p)
                /\ Overwrites(p) => SaveWrites(p)]_vars

\* a load found an expired entry, fetched, failed to save, and the expired
\* entry is gone
C18_Witness ==
    \E l \in LoaderIds :
        /\ LoadDone(l) /\ call[l].outcome = "result"
        /\ call[l].pre.exists /\ call[l].pre.age > TtlSeconds(l)
        /\ call[l].desers = 0 /\ call[l].fetches = 1
        /\ call[l].ser_failed /\ ~call[l].post.exists

\* the step is a block of a load_data call of loader l
LoadStep(l) == call[l].op = "load" /\ pc[l] # "done"

\* C19: no step of load_data, clear_cache or get_cache_info changes a
\* loader's cache_enabled, cache_ttl_hours or cache_dir, nor the settings,
\* and a step of a load changes no file but the one at the path derived
\* from the load's own source and parameters.
C19_LoadTouchesOnlyItsEntry ==
    [][LoaderStep =>
          /\ loader' = loader
          /\ settings' = settings
          /\ \A l \in LoaderIds :
                LoadStep(l) =>
                   \A p \in DOMAIN files :
                      files'[p] # files[p] => p = PathOf(l, call[l])]_vars

\* a load deleted the unreadable entry of its key and wrote a new one,
\* while the entry of another key is in the directory, readable
C19_Witness ==
    \E l \in LoaderIds :
        /\ LoadDone(l) /\ call[l].outcome = "result"
        /\ call[l].deser_failed /\ call[l].unlinks = 1 /\ ~call[l].unlink_failed
        /\ call[l].saved
        /\ \E p \in DOMAIN files :
              p # PathOf(l, call[l]) /\ Parseable(files[p])

\* the step is a get_cache_info call of loader l
InfoStep(l) ==
    /\ pc[l] = "idle" /\ pc'[l] = "done"
    /\ call'[l].op = "info"

\* a load that looked its entry up has finished, and the call before it was
\* get_cache_info
FollowsInfo(l) == LoadDone(l) /\ last.op = "info" /\ call[l].looked

\* C20: get_cache_info returns and changes no file, no loader setting and
\* not the directory; the load that follows it finds the entry of its key
\* as it was when get_cache_info was called, hits exactly if that entry is
\* within the TTL and readable, and then returns what the entry holds.
C20_InfoIsIntrospectionOnly ==
    /\ [][\A l \in LoaderIds :
            InfoStep(l) =>
               /\ call'[l].outcome = "result"
               /\ files' = files
               /\ loader' = loader
               /\ settings' = settings
               /\ dir_exists' = dir_exists]_vars
    /\ [](\A l \in LoaderIds :
            FollowsInfo(l) =>
               /\ call[l].cache_path \in last.readable
                     <=> (call[l].pre.exists /\ call[l].pre.content = "json")
               /\ (call[l].outcome = "result" /\ call[l].result.cached)
                     <=> (call[l].cache_path \in last.readable /\ FoundFresh(l))
               /\ call[l].result.cached
                     => call[l].result.data = call[l].pre.data)

\* get_cache_info was called with a readable entry in the directory, and
\* the load of that entry's key that followed was served from it
C20_Witness ==
    \E l \in LoaderIds :
        /\ FollowsInfo(l)
        /\ call[l].cache_path \in last.readable
        /\ call[l].outcome = "result" /\ call[l].result.cached

\* the caller holds the dict get_cache_info returned
InfoDone(l) == pc[l] = "done" /\ call[l].op = "info"

\* the sum of size_bytes over the elements of "files"
RECURSIVE SizesOf(_)
SizesOf(infos) ==
    IF infos = {} THEN 0
    ELSE LET i == CHOOSE x \in infos : TRUE IN i.size_bytes + SizesOf(infos \ {i})

\* a lookup of the file now would go on to read it
LookupWouldHit(l, p) ==
    files[p].exists /\ now - files[p].mtime <= TtlSeconds(l)

\* C21: with caching on (and the directory there), get_cache_info reports
\* file_count = the number of files with the loader's prefix = the number of
\* elements of "files", total_size_bytes = the sum of their sizes, each
\* element's size that of its file and its valid true exactly if the file
\* exists and is no older than the TTL; with caching off it reports
\* enabled False, file_count 0 and total_size_bytes 0.
C21_InfoReportsTheDirectory ==
    \A l \in LoaderIds :
        InfoDone(l) =>
            LET info == call[l].info IN
            /\ CanClear(l) =>
                  /\ info.enabled
                  /\ info.file_count = Cardinality(OwnFiles(l, files))
                  /\ info.file_count = Cardinality(info.files)
                  /\ {i.path : i \in info.files} = OwnFiles(l, files)
                  /\ info.total_size_bytes = SizesOf(info.files)
                  /\ \A i \in info.files :
                        /\ i.size_bytes = Len(files[i.path].content)
                        /\ i.valid <=> LookupWouldHit(l, i.path)
            /\ ~loader[l].cache_enabled =>
                  /\ ~info.enabled
                  /\ info.file_count = 0
                  /\ info.total_size_bytes = 0

\* get_cache_info found two files of different sizes, one of them expired
C21_Witness ==
    \E l \in LoaderIds :
        /\ InfoDone(l) /\ call[l].info.enabled
        /\ call[l].info.file_count = 2
        /\ \E i, j \in call[l].info.files :
              /\ i.size_bytes < j.size_bytes
              /\ i.valid /\ ~j.valid

\* the caller holds a DataLoadResult
Returned(l) == LoadDone(l) /\ call[l].outcome = "result"

C23_CachePathOfResult ==
    \A l \in LoaderIds :
        Returned(l) =>
            call[l].result.cache_path
               = IF loader[l].cache_enabled THEN PathOf(l, call[l]) ELSE None

\* a load with caching on fetched, failed to save, and returned a result
\* naming the derived path
C23_Witness ==
    \E l \in LoaderIds :
        /\ Returned(l) /\ loader[l].cache_enabled
        /\ call[l].ser_failed /\ ~call[l].result.cached
        /\ call[l].result.cache_path = PathOf(l, call[l])
        /\ call[l].result.cache_path # None

\* the TTL the loader was configured with: the constructor's argument, or
\* the settings' value when none was given
ConfiguredTtl(l) ==
    IF loader[l].args.cache_ttl_hours = {} THEN loader[l].seen.cache_ttl_hours
    ELSE CHOOSE v \in loader[l].args.cache_ttl_hours : TRUE

\* C24: a loader configured with a TTL of zero or less returns no cached
\* result, and each of its loads calls the fetch (read for the sources a
\* path can be derived for; the others never reach the fetch, C8).
C24_NonPositiveTtlNeverHits ==
    \A l \in LoaderIds :
        (LoadDone(l) /\ ConfiguredTtl(l) <= 0 /\ Encodable(call[l].source)) =>
            /\ call[l].fetches = 1
            /\ ~(call[l].outcome = "result" /\ call[l].result.cached)

\* C25: the loader's TTL and directory are the values the constructor was
\* given, and the settings' values when none was given.
C25_GivenValuesOverrideSettings ==
    \A l \in LoaderIds :
        /\ loader[l].cache_ttl_hours = ConfiguredTtl(l)
        /\ loader[l].cache_dir
              = IF loader[l].args.cache_dir = {} THEN loader[l].seen.cache_dir
                ELSE CHOOSE d \in loader[l].args.cache_dir : TRUE

\* the settings have been reloaded since the loader was built, and differ
Reloaded(l) == settings # loader[l].seen

\* the number of times the call ran _handle_cache_error
Handlers(l) ==
    (IF call[l].deser_failed THEN 1 ELSE 0) + (IF call[l].ser_failed THEN 1 ELSE 0)

\* the loader goes by cache_enabled, cache_ttl_hours and cache_dir as the
\* settings were when it was built
ConstructionTimeConfig(l) ==
    /\ (LoadDone(l) /\ Encodable(call[l].source)) =>
          /\ call[l].looked
          /\ call[l].cache_path
                = _get_cache_path(loader[l].cls, loader[l].seen.cache_dir,
                                  call[l].source, call[l].kwargs)
          /\ (call[l].outcome = "result" /\ call[l].result.cached)
                <=> /\ call[l].pre.exists /\ call[l].pre.content = "json"
                    /\ call[l].pre.age
                          <= loader[l].seen.cache_ttl_hours * SecondsPerHour
    /\ Returned(l) =>
          call[l].result.metadata.cache_ttl_hours = loader[l].seen.cache_ttl_hours
    /\ (ClearDone(l) /\ dir_exists /\ call[l].source = None
           /\ ~call[l].unlink_failed) => OwnFiles(l, files) = {}
    /\ (InfoDone(l) /\ dir_exists) =>
          /\ call[l].info.enabled
          /\ call[l].info.ttl_hours = loader[l].seen.cache_ttl_hours
          /\ call[l].info.cache_dir = loader[l].seen.cache_dir

\* a reload touches neither the loader nor the cache directory
ReloadKeeps ==
    settings' # settings =>
        loader' = loader /\ files' = files /\ dir_exists' = dir_exists

MissedFetchedWrote(l) ==
    /\ Returned(l) /\ ~call[l].pre.exists /\ call[l].desers = 0
    /\ call[l].fetches = 1 /\ call[l].saved

\* the call before: a process failed to read an unreadable entry, and what
\* its handler then unlinked was a readable entry, written since by the
\* other process
DeletedTheOthersEntry ==
    /\ last.op = "load" /\ last.desers = 1
    /\ last.unlinked = "json"

\* C27: whatever the other process does to the entry meanwhile, a load that
\* returns a fresh result returns what its own fetch returned and names the
\* derived path, be the file there or not.
C27_RaceCostsOnlyTheEntry ==
    \A l \in LoaderIds :
        (Returned(l) /\ ~call[l].result.cached) =>
            /\ call[l].fetches = 1
            /\ call[l].result.data = call[l].fetched
            /\ call[l].result.cache_path = PathOf(l, call[l])

\* both interleavings in one run: first the handler of one process removed
\* the entry the other had just written; then both processes missed, both
\* fetched and both wrote the same path
C27_Witness ==
    /\ DeletedTheOthersEntry
    /\ \A l \in LoaderIds : MissedFetchedWrote(l)
    /\ call[1].cache_path_save = call[2].cache_path_save

\* count_stations_in_area has ended
Counted == cli.pc = "done"

\* what a count field adds: its number, or 0 when the row has no such key,
\* no value under it, or a value that is no number
Contributes(v) == IF IsNumber(v) /\ ~v.nan THEN v.num ELSE 0

\* the sum of the two count fields over the rows inside the box
RECURSIVE InsideSum(_, _, _, _)
InsideSum(gdf, bbox, k1, k2) ==
    IF gdf = << >> THEN 0
    ELSE (IF within(Head(gdf).geometry, bbox)
          THEN Contributes(Head(gdf)[k1]) + Contributes(Head(gdf)[k2]) ELSE 0)
         + InsideSum(Tail(gdf), bbox, k1, k2)

\* C28: count_stations_in_area returns the arrivals (a1 + a2) and the
\* departures (d1 + d2) summed over exactly the stations inside the box, a
\* missing or non-numeric field counting 0, and total = arrivals +
\* departures.
C28_CountsStationsInside ==
    Counted =>
        /\ cli.result.outcome = "result"
        /\ cli.result.arrivals = InsideSum(cli.gdf, cli.bbox, "a1", "a2")
        /\ cli.result.departures = InsideSum(cli.gdf, cli.bbox, "d1", "d2")
        /\ cli.result.total = cli.result.arrivals + cli.result.departures

\* the call of l could not deserialize its entry and is about to invoke
\* _load_data_from_source
FetchAfterCorruptRead(l) ==
    pc[l] = "fetch" /\ call[l].op = "load" /\ call[l].deser_failed

\* the operation before the call of l was a load of the same key by l whose
\* deserialization failed
FollowsCorruptRead(l) ==
    /\ call[l].op = "load" /\ call[l].looked
    /\ last.op = "load" /\ last.loader = l
    /\ last.source = call[l].source /\ last.kwargs = call[l].kwargs
    /\ last.desers = 1 /\ ~last.cached

\* the call of l deserializes the content the load before it failed on: it
\* found a file that load's save had not written
ReadsItAgain(l) ==
    call[l].pre.exists /\ ~last.wrote /\ call[l].desers = 1

\* C29 as stated: after a deserialize failure the entry is gone when the
\* source is fetched, and the next load of the same key does not deserialize
\* the same corrupted content again.
C29_CorruptEntryDeletedBeforeFetch_AsStated ==
    \A l \in LoaderIds :
        /\ FetchAfterCorruptRead(l) => ~FileAt(files, call[l].cache_path).exists
        /\ FollowsCorruptRead(l) => ~ReadsItAgain(l)

\* C29 as amended: after a deserialize failure the deletion of the entry
\* has been attempted when the source is fetched, nothing has been fetched
\* yet, and the entry is gone unless the deletion failed; when the entry was
\* gone at the fetch, then, whether the fetch succeeded or failed, the next
\* load of the same key does not deserialize the same corrupted content
\* again.
C29_CorruptEntryDeletedBeforeFetch ==
    \A l \in LoaderIds :
        /\ FetchAfterCorruptRead(l) =>
               /\ call[l].unlinks = 1 /\ call[l].fetches = 0
               /\ ~call[l].unlink_failed => ~FileAt(files, call[l].cache_path).exists
        /\ (FollowsCorruptRead(l) /\ ~last.at_fetch) => ~ReadsItAgain(l)

\* the load before deleted its corrupted entry and then failed to fetch; the
\* next load of the key finds no entry
C29_Witness ==
    \E l \in LoaderIds :
        /\ FollowsCorruptRead(l)
        /\ ~last.at_fetch /\ last.unlinked = InvalidJson
        /\ last.fetches = 1 /\ last.outcome = "error"
        /\ ~call[l].pre.exists /\ call[l].desers = 0
        /\ pc[l] = "fetch"

\* the handler of the read error of l's call ends, its unlink having failed
ReadErrorUnlinkFails(l) ==
    /\ pc[l] = "read_error" /\ pc'[l] # "read_error"
    /\ call'[l].unlink_failed

\* the finished call could not deserialize its entry, could not delete it
\* either (the file was there when the source was fetched), and its fetch
\* succeeded
FetchedOverCorruptEntry(l) ==
    /\ LoadDone(l)
    /\ call[l].deser_failed /\ call[l].at_fetch
    /\ call[l].fetches = 1 /\ ~call[l].fetch_failed

\* C30: when the deletion after a deserialize failure fails, nothing is
\* raised and the call goes on to fetch from the source, leaving the file;
\* when that fetch succeeds, the call returns the fetched payload with
\* cached = FALSE.
C30_FailedDeletionIsSwallowed ==
    /\ [][\A l \in LoaderIds :
            ReadErrorUnlinkFails(l) =>
                /\ pc'[l] = "fetch"
                /\ call'[l].raised = NoError /\ call'[l].outcome = None
                /\ call'[l].fetches = 0
                /\ files' = files]_vars
    /\ [](\A l \in LoaderIds :
            FetchedOverCorruptEntry(l) =>
                /\ call[l].unlink_failed
                /\ call[l].outcome = "result"
                /\ call[l].raised = NoError /\ call[l].error = NoError
                /\ ~call[l].result.cached
                /\ call[l].result.data = call[l].fetched
                /\ call[l].fetched # NoData)

\* a load returned fresh data although its corrupted entry could not be
\* deleted, before the fetch or after the failed save, and is still on disk
C30_Witness ==
    \E l \in LoaderIds :
        /\ FetchedOverCorruptEntry(l)
        /\ call[l].unlinks = 2 /\ call[l].unlink_failed
        /\ call[l].ser_failed /\ ~call[l].wrote
        /\ Unparseable(call[l].post)
        /\ call[l].outcome = "result" /\ ~call[l].result.cached

\* the files clear_cache looks for in the step: the loader's files when no
\* source is given, the derived entry otherwise
ClearTargets(l) ==
    IF call'[l].source = None THEN OwnFiles(l, files)
    ELSE {p \in {ClearedPath(l)} : files[p].exists}

\* C31: a clear_cache call in which an unlink fails raises nothing: it
\* returns, every file it looked for has been removed or is one whose
\* deletion failed, the files that stay are as they were, and the count
\* returned is the number of files removed.
C31_ClearSkipsFailedDeletions ==
    [][\A l \in LoaderIds :
         (ClearStep(l) /\ call'[l].unlink_failed) =>
             LET before == ClearTargets(l)
                 after == {p \in before : files'[p].exists}
             IN /\ call'[l].outcome = "result"
                /\ call'[l].raised = NoError /\ call'[l].error = NoError
                /\ after # {}
                /\ call'[l].unlinks = Cardinality(before)
                /\ Cardinality(after) = call'[l].unlinks - call'[l].count
                /\ call'[l].count = Cardinality(before \ after)
                /\ \A p \in DOMAIN files :
                       files'[p] = IF p \in before \ after THEN NoFile ELSE files[p]]_vars

\* clear_cache() found two files: one could not be deleted and is still
\* there, the other is gone and is the one counted
C31_Witness ==
    \E l \in LoaderIds :
        /\ ClearDone(l) /\ call[l].source = None
        /\ call[l].unlink_failed /\ call[l].unlinks = 2
        /\ call[l].outcome = "result" /\ call[l].count = 1
        /\ Cardinality(OwnFiles(l, files)) = 1

\* the step is the handling of a cache error in the call of l: of a failed
\* read (base.py:130-132) or of a failed save (base.py:144-146)
HandlerStep(l) ==
    /\ pc[l] \in {"read_error", "save_error"}
    /\ pc'[l] # pc[l]

\* the call record without the count of printed warnings
Unprinted(c) == [c EXCEPT !.printed = 0]

\* what handling the error does apart from printing: go on to the block
\* that follows, with nothing raised, having tried to delete the file at
\* the path in question if there is one
HandledQuietly(l) ==
    LET p == IF pc[l] = "read_error" THEN call[l].cache_path
             ELSE call[l].cache_path_save
        there == p # None /\ FileAt(files, p).exists
        gone == there /\ ~FileAt(files', p).exists
    IN /\ pc'[l] = IF pc[l] = "read_error" THEN "fetch" ELSE "return"
       /\ \A q \in DOMAIN files : q # p => files'[q] = files[q]
       /\ there => files'[p] \in {files[p], NoFile}
       /\ Unprinted(call'[l]) =
             [Unprinted(call[l]) EXCEPT
                 !.unlinks = @ + (IF there THEN 1 ELSE 0),
                 !.unlink_failed = @ \/ (there /\ ~gone),
                 !.unlink_fails = @ + (IF there /\ ~gone THEN 1 ELSE 0),
                 !.unlinked = IF gone THEN files[p].content ELSE @]

\* C32: each handling of a cache error, of a failed read or of a failed
\* save, prints one warning if the debug setting is true and none if it is
\* false, and does the same otherwise; a load that handled a cache error and
\* whose fetch succeeded returns what it fetched, debug on or off.
C32_WarningIffDebug ==
    /\ [][\A l \in LoaderIds :
            HandlerStep(l) =>
                /\ call'[l].printed = call[l].printed + (IF settings.debug THEN 1 ELSE 0)
                /\ HandledQuietly(l)]_vars
    /\ [](\A l \in LoaderIds :
            (LoadDone(l) /\ Handlers(l) > 0 /\ ~call[l].fetch_failed) =>
                /\ call[l].outcome = "result"
                /\ ~call[l].result.cached
                /\ call[l].result.data = call[l].fetched)

\* with debug on, a load handled a failed read and a failed save and
\* printed two warnings
C32_Witness ==
    \E l \in LoaderIds :
        /\ Returned(l) /\ settings.debug
        /\ call[l].deser_failed /\ call[l].ser_failed
        /\ call[l].printed = 2

\* the last operation was a reload with this TTL in the environment
ReloadedWith(v) == last.op = "reload_settings" /\ last.env = {v}

\* C33: the TTL of the global settings is always an integer from 1 to 168:
\* a reload that finds a TTL below 1 or above 168 ends with a validation
\* error and leaves the global settings as they were; a reload that finds a
\* TTL within the range installs it.
C33_SettingsTtlInRange ==
    /\ [](settings.cache_ttl_hours \in 1..168)
    /\ [](\A v \in {0, 1, 2, 168, 169} :
            ReloadedWith(v) =>
                IF v < 1 \/ v > 168
                THEN last.outcome = "ValidationError"
                ELSE last.outcome = "result" /\ settings.cache_ttl_hours = v)
    /\ [][\A v \in {0, 1, 2, 168, 169} :
            (ReloadedWith(v)' /\ (v < 1 \/ v > 168)) => settings' = settings]_vars

\* after a reload had installed a TTL of 168 hours, a reload that found 169
\* was rejected and the 168 hours are still in force
C33_Witness ==
    /\ ReloadedWith(169) /\ last.outcome = "ValidationError"
    /\ settings.cache_ttl_hours = 168

\* caching was off in the settings the constructor of l read
OffProcessWide(l) == ~loader[l].seen.cache_enabled

\* C34: a loader's cache_enabled is the conjunction of the constructor's
\* argument and the settings' cache_enabled the constructor read; when that
\* setting was off, whatever the argument, no call of the loader (load,
\* clear_cache, get_cache_info) looks an entry up, reads, writes or deletes
\* a file, or changes the directory.
C34_EnabledIsArgumentAndSetting ==
    /\ [](\A l \in LoaderIds :
            /\ loader[l].cache_enabled
                  = (loader[l].args.cache_enabled /\ loader[l].seen.cache_enabled)
            /\ (OffProcessWide(l) /\ pc[l] # "idle") =>
                  /\ ~call[l].looked
                  /\ call[l].desers = 0 /\ call[l].sers = 0 /\ call[l].unlinks = 0
                  /\ call[l].count = 0 /\ call[l].deleted = {}
                  /\ ~call[l].info.enabled)
    /\ [][\A l \in LoaderIds :
            (OffProcessWide(l) /\ pc'[l] # pc[l]) =>
                files' = files /\ dir_exists' = dir_exists]_vars

\* the constructor asked for caching while it was off in the settings: a
\* load returned fresh data and left alone the file another writer had put
\* at the path of its key
C34_Witness ==
    \E l \in LoaderIds :
        /\ loader[l].args.cache_enabled /\ OffProcessWide(l)
        /\ Returned(l) /\ ~call[l].result.cached
        /\ call[l].post.exists

\* the finished call of l returned what it read from its entry
Hit(l) == Returned(l) /\ call[l].result.cached

\* C35: a cache hit leaves the entry untouched: the lookup and the read
\* change no file, and after the hit the entry holds what it held, its age
\* grown by the time the call took (its modification time is not
\* refreshed); a load of the same key that follows a hit finds the entry as
\* written, and fetches again once its age is beyond the TTL.
C35_HitLeavesEntryUntouched ==
    /\ [][\A l \in LoaderIds :
            (pc[l] \in {"lookup", "load_from_cache"} /\ pc'[l] # pc[l]) =>
                files' = files]_vars
    /\ [](\A l \in LoaderIds :
            /\ Hit(l) =>
                  /\ call[l].post.exists
                  /\ call[l].post.content = call[l].pre.content
                  /\ call[l].post.data = call[l].pre.data
                  /\ call[l].post.age = call[l].pre.age + call[l].elapsed
            /\ (LoadDone(l) /\ FollowsLoad(l) /\ last.cached /\ call[l].looked) =>
                  /\ call[l].pre.exists /\ call[l].pre.content = "json"
                  /\ call[l].pre.age > TtlSeconds(l) =>
                        call[l].desers = 0 /\ call[l].fetches = 1)

\* an entry that was hit when it was as old as the TTL allows is stale at
\* the next load of its key, which fetches
C35_Witness ==
    \E l \in LoaderIds :
        /\ LoadDone(l) /\ FollowsLoad(l) /\ last.cached
        /\ call[l].pre.exists /\ call[l].pre.age > TtlSeconds(l)
        /\ call[l].desers = 0 /\ call[l].fetches = 1
        /\ call[l].outcome = "result" /\ ~call[l].result.cached

\* the finished call of l missed (it looked its entry up and read nothing)
\* and ended with a DataLoadError
MissedAndFailed(l) ==
    /\ LoadDone(l) /\ call[l].outcome = "error"
    /\ call[l].error.type = "DataLoadError"
    /\ call[l].looked /\ call[l].desers = 0

\* the step belongs to a load of l that has read, written and deleted
\* nothing so far
QuietLoadStep(l) ==
    /\ pc'[l] # pc[l] /\ call'[l].op = "load"
    /\ call'[l].desers = 0 /\ call'[l].sers = 0 /\ call'[l].unlinks = 0
    /\ ~call'[l].ser_failed

\* C36: a load that ends with a DataLoadError after a miss has written and
\* deleted nothing: none of its steps changed a file or the directory, and
\* the entry of its key is as the lookup found it, absent or stale, with
\* the same content and the same modification time.
C36_FailedMissLeavesDirectory ==
    /\ [][\A l \in LoaderIds :
            QuietLoadStep(l) => files' = files /\ dir_exists' = dir_exists]_vars
    /\ [](\A l \in LoaderIds :
            MissedAndFailed(l) =>
                /\ call[l].sers = 0 /\ call[l].unlinks = 0
                /\ ~call[l].ser_failed /\ ~call[l].wrote
                /\ call[l].post.exists = call[l].pre.exists
                /\ call[l].post.content = call[l].pre.content
                /\ call[l].post.data = call[l].pre.data
                /\ call[l].pre.exists =>
                      /\ call[l].pre.age > TtlSeconds(l)
                      /\ call[l].post.age = call[l].pre.age + call[l].elapsed)

\* the fetch failed after the lookup had found a stale entry, which is
\* still there
C36_Witness ==
    \E l \in LoaderIds :
        /\ MissedAndFailed(l) /\ call[l].fetch_failed
        /\ call[l].pre.exists /\ call[l].pre.content = "json"
        /\ call[l].pre.age > TtlSeconds(l)
        /\ call[l].post.exists /\ call[l].post.content = "json"

\* the unlinks that failed in the call c before its fetch: the one of the
\* handler of the failed read, when the entry was still there at the fetch
FailedBeforeFetch(c, deser_failed) == IF deser_failed /\ c.at_fetch THEN 1 ELSE 0

\* the serialize step of the finished call of l failed, and no deletion
\* failed in the clean-up that followed
SaveFailedAndCleanedUp(l) ==
    /\ LoadDone(l) /\ call[l].ser_failed
    /\ call[l].unlink_fails = FailedBeforeFetch(call[l], call[l].deser_failed)

\* the call of l has looked its entry up, and the operation before it was a
\* load of the same key by l whose serialize step failed, with no deletion
\* failing in the clean-up
FollowsCleanedUpSave(l) ==
    /\ call[l].op = "load" /\ call[l].looked
    /\ last.op = "load" /\ last.loader = l
    /\ last.source = call[l].source /\ last.kwargs = call[l].kwargs
    /\ last.sers = 1 /\ ~last.saved
    /\ last.unlink_fails = FailedBeforeFetch(last, last.desers = 1 /\ ~last.cached)

\* C37: after a load whose serialize step failed and whose clean-up
\* deletion did not fail, no file is at the derived path, whether the save
\* had left a partial file or an older entry was lying there; the next load
\* of the key finds no entry, reads nothing and fetches.
C37_FailedSaveLeavesNoFile ==
    \A l \in LoaderIds :
        /\ SaveFailedAndCleanedUp(l) =>
               /\ ~call[l].post.exists
               /\ call[l].outcome = "result" /\ ~call[l].result.cached
        /\ FollowsCleanedUpSave(l) =>
               /\ ~call[l].pre.exists
               /\ call[l].desers = 0
               /\ LoadDone(l) => call[l].fetches = 1

\* the save of the load before left a partial file, which the clean-up
\* removed; this load of the key missed and fetched again
C37_Witness ==
    \E l \in LoaderIds :
        /\ LoadDone(l) /\ FollowsCleanedUpSave(l)
        /\ last.wrote /\ last.unlinked = InvalidJson /\ last.fetches = 1
        /\ ~call[l].pre.exists /\ call[l].fetches = 1
        /\ call[l].outcome = "result"

\* C38: in a single process, after any sequence of loads and clears, the
\* payload a cache hit returns for a key equals the payload that the most
\* recent successful fresh load of that key fetched and serialized.
C38_HitReturnsWhatWasFetched ==
    \A l \in LoaderIds :
        Hit(l) =>
            /\ FileAt(files, call[l].cache_path).payload # NoData
            /\ call[l].result.data = FileAt(files, call[l].cache_path).payload

====
